---- MODULE Spec2Model ----
\* Verification model of the buy-alert bot: the block poller, the two swap
\* handlers, the persistence layer they commit to, and the pure classifiers
\* and formatters of src/src/blockchain/MonitoringService.ts.
EXTENDS Integers, Sequences, FiniteSets, TLC

\* ---------------------------------------------------------------- bounds
\* Highest block height getBlockNumber reports.
MaxHead == 2

\* ------------------------------------------------------------- addresses
\* An address is a pair <<account, letter case>>: "l" is the all-lower-case
\* spelling, "m" the mixed-case (checksummed) spelling of the same account.
\* String equality of the source is equality of pairs.
toLowerCase(a) == <<a[1], "l">>

\* '' : what `tx.to?.toLowerCase() || ''` yields for a missing destination.
EmptyString == <<"", "l">>
\* null / undefined of the source.
Null == <<"null", "l">>

T1l == <<"T1", "l">>
T1m == <<"T1", "m">>
T2l == <<"T2", "l">>
T2m == <<"T2", "m">>
WalletA == <<"A", "m">>
WalletB == <<"B", "m">>
PairX == <<"X", "l">>
Pool1 == <<"P1", "m">>

\* process.env values read in the constructor and in initHLPMM.
routerAddress == <<"R", "m">>
hlpmmUsidAddress == toLowerCase(<<"USID", "m">>)

Chats == {"c1", "c2"}

\* ------------------------------------------------------------ the chain
\* The logs the RPC endpoint serves, in chain order. A Transfer log carries
\* the emitting token, from, to, value and its transaction's from/to; a Swap
\* log of the second protocol's event emitter carries pool, tokenIn,
\* tokenOut, amountIn (quote currency, in cents) and amountOut.
TransferLog(b, i, h, tok, from, to, val, txFrom, txTo) ==
  [kind |-> "transfer", block |-> b, index |-> i, txHash |-> h, token |-> tok,
   from |-> from, to |-> to, value |-> val, txFrom |-> txFrom, txTo |-> txTo,
   pool |-> Null, tokenIn |-> Null, tokenOut |-> Null, amountIn |-> 0]

SwapLog(b, i, h, pool, tokenIn, tokenOut, amountIn, amountOut, txFrom) ==
  [kind |-> "swap", block |-> b, index |-> i, txHash |-> h, token |-> Null,
   from |-> Null, to |-> Null, value |-> amountOut, txFrom |-> txFrom,
   txTo |-> Null, pool |-> pool, tokenIn |-> tokenIn, tokenOut |-> tokenOut,
   amountIn |-> amountIn]

ChainLogs == <<
  \* h1 (block 1): a router buy of T1 by A whose transaction emits two Transfer logs
  TransferLog(1, 0, "h1", T1m, toLowerCase(routerAddress), WalletA, 1000, WalletA, routerAddress),
  TransferLog(1, 0, "h1", T1m, PairX, WalletA, 49999, toLowerCase(WalletA), toLowerCase(routerAddress)),
  \* h2 (block 1): a transfer of T1 between wallets in a transaction without destination
  TransferLog(1, 1, "h2", T1m, WalletB, WalletA, 1000, WalletB, Null),
  \* h3 (block 2): second-protocol buy of T1 through pool P1
  SwapLog(2, 0, "h3", Pool1, <<"USID", "m">>, T1m, 50000, 1000, WalletA),
  \* h4 (block 2): a sell through P1 (tokenIn is not the quote currency), and a
  \* Swap log of pool P1 that names T2 as tokenOut
  SwapLog(2, 1, "h4", Pool1, T1m, <<"USID", "m">>, 1000, 50000, WalletB),
  SwapLog(2, 1, "h4", Pool1, <<"USID", "m">>, T2m, 1000, 1000, WalletB)
>>

LogIds == DOMAIN ChainLogs
Hashes == {ChainLogs[i].txHash : i \in LogIds}

\* hlpmmFactory.poolToToken as deployed on the chain.
poolToToken(pool) == IF toLowerCase(pool) = toLowerCase(Pool1) THEN T1m ELSE Null

\* contract.queryFilter(filter, fromBlock, toBlock): the ids of the matching
\* logs in chain order. The node matches the contract address whatever its
\* letter case.
LogIdSeq == [i \in LogIds |-> i]

queryFilterTransfer(addr, fromBlock, toBlock) ==
  SelectSeq(LogIdSeq, LAMBDA i : /\ ChainLogs[i].kind = "transfer"
                                 /\ toLowerCase(ChainLogs[i].token) = toLowerCase(addr)
                                 /\ ChainLogs[i].block >= fromBlock
                                 /\ ChainLogs[i].block <= toBlock)

queryFilterSwap(fromBlock, toBlock) ==
  SelectSeq(LogIdSeq, LAMBDA i : /\ ChainLogs[i].kind = "swap"
                                 /\ ChainLogs[i].block >= fromBlock
                                 /\ ChainLogs[i].block <= toBlock)

\* ------------------------------------------------------- pure functions
\* The outcome of classifyTransfer: {type: 'buy', trader} or null.
NoClassification == [type |-> "none", trader |-> Null]

\* classifyTransfer with the comparison of `from` against the router made on
\* the raw strings.
classifyTransferCaseSensitive(from, to, txFrom, txTo) ==
  LET normalizedTo == toLowerCase(to)
      normalizedRouter == toLowerCase(routerAddress)
      normalizedTxFrom == toLowerCase(txFrom)
      normalizedTxTo == IF txTo = Null THEN EmptyString ELSE toLowerCase(txTo)
  IN IF from = routerAddress
       THEN [type |-> "buy", trader |-> to]
       ELSE IF normalizedTxTo = normalizedRouter /\ normalizedTo = normalizedTxFrom
              THEN [type |-> "buy", trader |-> to]
              ELSE NoClassification

classifyTransfer(from, to, txFrom, txTo) ==
  LET normalizedFrom == toLowerCase(from)
      normalizedTo == toLowerCase(to)
      normalizedRouter == toLowerCase(routerAddress)
      normalizedTxFrom == toLowerCase(txFrom)
      normalizedTxTo == IF txTo = Null THEN EmptyString ELSE toLowerCase(txTo)
  IN IF normalizedFrom = normalizedRouter
       THEN [type |-> "buy", trader |-> to]
       ELSE IF normalizedTxTo = normalizedRouter /\ normalizedTo = normalizedTxFrom
              THEN [type |-> "buy", trader |-> to]
              ELSE NoClassification

\* Strings the formatter builds are sequences of one-character strings.
DigitChars == <<"0", "1", "2", "3", "4", "5", "6", "7", "8", "9">>

RECURSIVE DecimalDigits(_)
DecimalDigits(n) ==
  IF n < 10 THEN <<DigitChars[n + 1]>>
  ELSE DecimalDigits(n \div 10) \o <<DigitChars[(n % 10) + 1]>>

Abs(x) == IF x < 0 THEN 0 - x ELSE x

\* Number.prototype.toFixed(2) of the quotient num/den (den > 0): the sign,
\* then the magnitude rounded to hundredths, ties to the larger magnitude.
toFixed2(num, den) ==
  LET hundredths == (2 * Abs(num) * 100 + den) \div (2 * den)
  IN (IF num < 0 THEN <<"-">> ELSE <<>>)
       \o DecimalDigits(hundredths \div 100)
       \o <<".">>
       \o <<DigitChars[((hundredths % 100) \div 10) + 1], DigitChars[(hundredths % 10) + 1]>>

\* formatPositionPercent with the change taken against the current holdings.
formatPositionPercentOfCurrent(current, previous) ==
  IF previous <= 0 \/ current <= 0 THEN <<"N", "/", "A">>
  ELSE LET pctNum == (current - previous) * 100
       IN (IF pctNum >= 0 THEN <<"+">> ELSE <<>>) \o toFixed2(pctNum, current) \o <<"%">>

\* formatPositionPercent without the "+" in front of a gain.
formatPositionPercentUnsigned(current, previous) ==
  IF previous <= 0 THEN <<"N", "/", "A">>
  ELSE toFixed2((current - previous) * 100, previous) \o <<"%">>

\* pct = ((current - previous) / previous) * 100 is the quotient
\* (current - previous) * 100 / previous.
formatPositionPercent(current, previous) ==
  IF previous <= 0 THEN <<"N", "/", "A">>
  ELSE LET pctNum == (current - previous) * 100
       IN (IF pctNum >= 0 THEN <<"+">> ELSE <<>>) \o toFixed2(pctNum, previous) \o <<"%">>

\* A missing trader_positions row.
NoRow == 0 - 1

Max(a, b) == IF a >= b THEN a ELSE b

LabelNew == <<"N", "E", "W">>

\* Transfer logs of the token from or to the wallet, as the history lookup
\* sees them: transaction hash, block, and transaction index.
HistoryEvent(h, b, i) == [txHash |-> h, block |-> b, txIndex |-> i]

\* `const windowSize = 1000`
windowSize == 1000

\* The windows [start, end] the backward scan walks, from `end` to genesis.
RECURSIVE Windows(_)
Windows(end) ==
  IF end < 0 THEN {}
  ELSE {<<IF end - windowSize + 1 > 0 THEN end - windowSize + 1 ELSE 0, end>>}
         \cup Windows(end - windowSize)

\* hasPriorInEvents without the test of the transaction hash.
hasPriorInEventsCountsCurrent(events, txHash, blockNumber, txIndex) ==
  \E evt \in events :
    \/ evt.block < blockNumber
    \/ evt.block = blockNumber /\ evt.txIndex <= txIndex

\* hasPriorInEvents of hasPriorTokenInteraction.
hasPriorInEvents(events, txHash, blockNumber, txIndex) ==
  \E evt \in events :
    /\ evt.txHash # txHash
    /\ \/ evt.block < blockNumber
       \/ evt.block = blockNumber /\ evt.txIndex < txIndex

\* hasPriorTokenInteraction counting the other transactions of the same block
\* whatever their index.
hasPriorTokenInteractionWholeBlock(chainEvents, currentTxHash, upToBlock, currentTxIndex, lookup) ==
  /\ lookup # "error"
  /\ \E evt \in chainEvents :
       evt.txHash # currentTxHash /\ evt.block <= upToBlock

\* queryFilter leaving out the logs of the block `end`.
queryFilterExclusiveEnd(chainEvents, start, end) ==
  {evt \in chainEvents : evt.block >= start /\ evt.block < end}

\* `interactionContract.queryFilter(filter, start, end)`, both filters joined.
queryFilter(chainEvents, start, end) ==
  {evt \in chainEvents : evt.block >= start /\ evt.block <= end}

\* The window whose query is rejected, counted from the window that ends at
\* the target block; 0 when every query of the scan is answered.
FailingWindow(lookup) ==
  IF lookup = "scanError1" THEN 1 ELSE IF lookup = "scanError2" THEN 2 ELSE 0

\* `for (let end = upToBlock; end >= 0; end -= windowSize) { ... }` from
\* `end` on: the result, whether a query threw, and the windows queried.
RECURSIVE scanWindows(_, _, _, _, _, _)
scanWindows(chainEvents, currentTxHash, upToBlock, currentTxIndex, end, failing) ==
  IF end < 0 THEN [result |-> FALSE, threw |-> FALSE, queried |-> {}]
  ELSE LET start == Max(0, end - windowSize + 1)
           index == (upToBlock - end) \div windowSize + 1
       IN IF index = failing
            THEN [result |-> FALSE, threw |-> TRUE, queried |-> {<<start, end>>}]
          ELSE IF hasPriorInEvents(queryFilter(chainEvents, start, end), currentTxHash,
                                   upToBlock, currentTxIndex)
            THEN [result |-> TRUE, threw |-> FALSE, queried |-> {<<start, end>>}]
          ELSE LET rest == scanWindows(chainEvents, currentTxHash, upToBlock, currentTxIndex,
                                       end - windowSize, failing)
               IN [rest EXCEPT !.queried = @ \cup {<<start, end>>}]

\* hasPriorTokenInteraction. chainEvents are the Transfer logs of the token
\* from or to the wallet on the chain; lookup tells how queryFilter(0,
\* upToBlock) ends: "ok", "rangeLimit" (the provider's range-limit error, so
\* the windows are scanned), "scanError1" and "scanError2" (the range-limit
\* error, and then the query of that window of the scan is rejected), or
\* "error" (any other error: assume none).
tryHasPriorTokenInteraction(chainEvents, currentTxHash, upToBlock, currentTxIndex, lookup) ==
  IF lookup = "error" THEN [result |-> FALSE, threw |-> TRUE, queried |-> {<<0, upToBlock>>}]
  ELSE IF lookup = "ok"
    THEN [result |-> hasPriorInEvents(queryFilter(chainEvents, 0, upToBlock), currentTxHash,
                                      upToBlock, currentTxIndex),
          threw |-> FALSE, queried |-> {<<0, upToBlock>>}]
  ELSE scanWindows(chainEvents, currentTxHash, upToBlock, currentTxIndex, upToBlock,
                   FailingWindow(lookup))

\* hasPriorTokenInteraction answering from the windows it could query when
\* a query of the scan is rejected.
hasPriorTokenInteractionSkipsFailedWindow(chainEvents, currentTxHash, upToBlock, currentTxIndex, lookup) ==
  /\ lookup # "error"
  /\ hasPriorInEvents(queryFilter(chainEvents, 0, upToBlock), currentTxHash, upToBlock,
                      currentTxIndex)

\* `catch (error) { logger.warn(...); return false; }`
hasPriorTokenInteraction(chainEvents, currentTxHash, upToBlock, currentTxIndex, lookup) ==
  LET try == tryHasPriorTokenInteraction(chainEvents, currentTxHash, upToBlock,
                                         currentTxIndex, lookup)
  IN IF try.threw THEN FALSE ELSE try.result

\* computePositionLabel keeping the snapshot as the baseline when the
\* holdings fell below it.
computePositionLabelSnapshotBaseline(previousSnapshot, currentHoldingsNumeric, deltaAmountNumeric, hasPriorInteraction) ==
  LET previousHoldingsNumeric == IF previousSnapshot = NoRow THEN 0 ELSE previousSnapshot
      inferredPrevious == Max(0, currentHoldingsNumeric - deltaAmountNumeric)
  IN IF previousSnapshot # NoRow /\ previousHoldingsNumeric > 0
       THEN [label |-> formatPositionPercent(currentHoldingsNumeric, previousHoldingsNumeric),
             history |-> FALSE]
       ELSE IF ~hasPriorInteraction \/ inferredPrevious <= 0
              THEN [label |-> LabelNew, history |-> TRUE]
              ELSE [label |-> formatPositionPercent(currentHoldingsNumeric, inferredPrevious),
                    history |-> TRUE]

\* computePositionLabel without the `inferredPrevious <= 0` test after the
\* history lookup.
computePositionLabelNoBaselineTest(previousSnapshot, currentHoldingsNumeric, deltaAmountNumeric, hasPriorInteraction) ==
  LET previousHoldingsNumeric == IF previousSnapshot = NoRow THEN 0 ELSE previousSnapshot
      inferredPrevious == Max(0, currentHoldingsNumeric - deltaAmountNumeric)
  IN IF previousSnapshot # NoRow /\ previousHoldingsNumeric > 0
       THEN IF currentHoldingsNumeric >= previousHoldingsNumeric
              THEN [label |-> formatPositionPercent(currentHoldingsNumeric, previousHoldingsNumeric),
                    history |-> FALSE]
              ELSE IF inferredPrevious > 0
                     THEN [label |-> formatPositionPercent(currentHoldingsNumeric, inferredPrevious),
                           history |-> FALSE]
                     ELSE [label |-> LabelNew, history |-> FALSE]
       ELSE IF ~hasPriorInteraction
              THEN [label |-> LabelNew, history |-> TRUE]
              ELSE [label |-> formatPositionPercent(currentHoldingsNumeric, inferredPrevious),
                    history |-> TRUE]

\* computePositionLabel inferring the earlier holdings by adding the traded
\* amount to the current holdings.
computePositionLabelAddsDelta(previousSnapshot, currentHoldingsNumeric, deltaAmountNumeric, hasPriorInteraction) ==
  LET previousHoldingsNumeric == IF previousSnapshot = NoRow THEN 0 ELSE previousSnapshot
      inferredPrevious == Max(0, currentHoldingsNumeric + deltaAmountNumeric)
  IN IF previousSnapshot # NoRow /\ previousHoldingsNumeric > 0
       THEN IF currentHoldingsNumeric >= previousHoldingsNumeric
              THEN [label |-> formatPositionPercent(currentHoldingsNumeric, previousHoldingsNumeric),
                    history |-> FALSE]
              ELSE IF inferredPrevious > 0
                     THEN [label |-> formatPositionPercent(currentHoldingsNumeric, inferredPrevious),
                           history |-> FALSE]
                     ELSE [label |-> LabelNew, history |-> FALSE]
       ELSE IF ~hasPriorInteraction
              THEN [label |-> LabelNew, history |-> TRUE]
              ELSE IF inferredPrevious <= 0
                     THEN [label |-> LabelNew, history |-> TRUE]
                     ELSE [label |-> formatPositionPercent(currentHoldingsNumeric, inferredPrevious),
                           history |-> TRUE]

\* computePositionLabel. previousSnapshot is the holdings of the persisted row
\* or NoRow; hasPriorInteraction is what hasPriorTokenInteraction would
\* return. The result carries the label and whether the history lookup was
\* made.
computePositionLabel(previousSnapshot, currentHoldingsNumeric, deltaAmountNumeric, hasPriorInteraction) ==
  LET previousHoldingsNumeric == IF previousSnapshot = NoRow THEN 0 ELSE previousSnapshot
      inferredPrevious == Max(0, currentHoldingsNumeric - deltaAmountNumeric)
  IN IF previousSnapshot # NoRow /\ previousHoldingsNumeric > 0
       THEN IF currentHoldingsNumeric >= previousHoldingsNumeric
              THEN [label |-> formatPositionPercent(currentHoldingsNumeric, previousHoldingsNumeric),
                    history |-> FALSE]
              ELSE IF inferredPrevious > 0
                     THEN [label |-> formatPositionPercent(currentHoldingsNumeric, inferredPrevious),
                           history |-> FALSE]
                     ELSE [label |-> LabelNew, history |-> FALSE]
       ELSE IF ~hasPriorInteraction
              THEN [label |-> LabelNew, history |-> TRUE]
              ELSE IF inferredPrevious <= 0
                     THEN [label |-> LabelNew, history |-> TRUE]
                     ELSE [label |-> formatPositionPercent(currentHoldingsNumeric, inferredPrevious),
                           history |-> TRUE]

\* ---------------------------------------------------------- price service
\* Prices are non-negative rationals num/den; the arithmetic keeps them in
\* lowest terms.
Num(n, d) == [num |-> n, den |-> d]
Zero == Num(0, 1)

RECURSIVE GCD(_, _)
GCD(a, b) == IF b = 0 THEN a ELSE GCD(b, a % b)

Reduce(q) == IF q.num = 0 THEN Zero
             ELSE LET g == GCD(q.num, q.den) IN Num(q.num \div g, q.den \div g)

QMul(a, b) == Reduce(Num(a.num * b.num, a.den * b.den))
QDiv(a, b) == Reduce(Num(a.num * b.den, a.den * b.num))
IsPositive(q) == q.num > 0

RECURSIVE Pow10(_)
Pow10(k) == IF k = 0 THEN 1 ELSE 10 * Pow10(k - 1)

\* <<floor(n * 10^k / d), the remainder of that division>>, digit by digit.
RECURSIVE Scaled(_, _, _)
Scaled(n, d, k) ==
  IF k = 0 THEN <<n \div d, n % d>>
  ELSE LET p == Scaled(n, d, k - 1)
       IN <<p[1] * 10 + (p[2] * 10) \div d, (p[2] * 10) % d>>

\* Number.prototype.toFixed(digits): the value rounded half up to that many
\* decimals.
toFixed(q, digits) ==
  LET p == Scaled(q.num, q.den, digits)
  IN Reduce(Num(p[1] + (IF 2 * p[2] >= q.den THEN 1 ELSE 0), Pow10(digits)))

\* The strings of a TokenPrice: the literal '0', a decimal rendering of a
\* number (formatUnits, formatEther and toFixed always write a decimal point,
\* so that a rendered zero is "0.0" or "0.00000000" and differs from '0'), and
\* the renderings of the non-finite numbers.
Lit0 == [text |-> "0", val |-> Zero]
Dec(q) == [text |-> "dec", val |-> q]
StrInfinity == [text |-> "Infinity", val |-> Zero]
StrNaN == [text |-> "NaN", val |-> Zero]

\* A TokenPrice, and the null result.
TokenPrice(priceInEth, priceInUsd) ==
  [isNull |-> FALSE, priceInEth |-> priceInEth, priceInUsd |-> priceInUsd]
NullPrice == [isNull |-> TRUE, priceInEth |-> Lit0, priceInUsd |-> Lit0]

\* An answer of a remote source: absent (the call failed, or the field is
\* missing or not a positive number) or a value.
Absent == [ok |-> FALSE, val |-> Zero]
Answer(q) == [ok |-> TRUE, val |-> q]

\* PAX_USD_PRICE fallback: 11.51.
PaxUsdFallback == Num(1151, 100)

\* process.env.PAX_USD_PRICE: not set, or one of these texts.
EnvUnset == "unset"
PaxUsdPriceSettings == {EnvUnset, "", "12.5", "abc", "0", "-3", "Infinity"}

\* parseFloat of these texts and of the literal '11.51': a finite number, or
\* NaN or Infinity.
parseFloat(text) ==
  IF text = "12.5" THEN [finite |-> TRUE, val |-> Num(25, 2)]
  ELSE IF text = "11.51" THEN [finite |-> TRUE, val |-> Num(1151, 100)]
  ELSE IF text = "0" THEN [finite |-> TRUE, val |-> Zero]
  ELSE IF text = "-3" THEN [finite |-> TRUE, val |-> Num(0 - 3, 1)]
  ELSE [finite |-> FALSE, val |-> Zero]

\* `5 * 60 * 1000` milliseconds, the clock being counted in minutes.
FiveMinutes == 5

\* getPaxUsdPrice warning at every failed quote.
getPaxUsdPriceAtAlwaysWarns(paxQuote, setting, now, paxUsdErrorLoggedAt) ==
  IF paxQuote.ok
    THEN [price |-> paxQuote.val, paxUsdErrorLoggedAt |-> paxUsdErrorLoggedAt,
          warned |-> FALSE, failed |-> FALSE]
    ELSE LET fallbackPrice == parseFloat(IF setting = EnvUnset \/ setting = ""
                                         THEN "11.51" ELSE setting)
         IN [price |-> IF fallbackPrice.finite /\ IsPositive(fallbackPrice.val)
                       THEN fallbackPrice.val ELSE PaxUsdFallback,
             paxUsdErrorLoggedAt |-> now, warned |-> TRUE, failed |-> TRUE]

\* getPaxUsdPrice called at Date.now() = now with PAX_USD_PRICE = setting:
\* the price returned, the field paxUsdErrorLoggedAt afterwards, and whether
\* the warning was logged.
getPaxUsdPriceAt(paxQuote, setting, now, paxUsdErrorLoggedAt) ==
  IF paxQuote.ok
    THEN [price |-> paxQuote.val, paxUsdErrorLoggedAt |-> paxUsdErrorLoggedAt,
          warned |-> FALSE, failed |-> FALSE]
    ELSE LET warns == now - paxUsdErrorLoggedAt >= FiveMinutes
             fallbackPrice == parseFloat(IF setting = EnvUnset \/ setting = ""
                                         THEN "11.51" ELSE setting)
         IN [price |-> IF fallbackPrice.finite /\ IsPositive(fallbackPrice.val)
                       THEN fallbackPrice.val ELSE PaxUsdFallback,
             paxUsdErrorLoggedAt |-> IF warns THEN now ELSE paxUsdErrorLoggedAt,
             warned |-> warns, failed |-> TRUE]

\* getPaxUsdPrice: the router's quote for one native coin, else the fallback,
\* PAX_USD_PRICE being not set.
getPaxUsdPrice(paxQuote) == getPaxUsdPriceAt(paxQuote, EnvUnset, 0, 0).price

\* normalizeUsdPrice: '0' for a non-positive value, three decimals from 1 on,
\* and below 1 twelve decimals without the trailing zeros, which for the
\* decimal fractions of this model (at most twelve decimals) is the value.
normalizeUsdPrice(value) ==
  IF ~IsPositive(value) THEN Lit0
  ELSE IF value.num >= value.den THEN Dec(toFixed(value, 3))
  ELSE Dec(Reduce(value))

\* (a / b).toFixed(8), where a division by zero gives Infinity or NaN.
divToFixed8(a, b) ==
  IF b.num = 0 THEN (IF a.num = 0 THEN StrNaN ELSE StrInfinity)
  ELSE Dec(toFixed(QDiv(a, b), 8))

\* getTokenPriceFromPortfolioApi: api holds the usd and eth fields as
\* parseNumericField reads them (absent when the request failed).
getTokenPriceFromPortfolioApi(api, paxQuote) ==
  IF ~api.usd.ok /\ ~api.eth.ok THEN NullPrice
  ELSE LET paxUsdPrice == getPaxUsdPrice(paxQuote)
           resolvedUsd == IF api.usd.ok THEN api.usd.val ELSE QMul(api.eth.val, paxUsdPrice)
           resolvedEth == IF api.eth.ok THEN api.eth.val
                          ELSE IF IsPositive(resolvedUsd) /\ IsPositive(paxUsdPrice)
                            THEN QDiv(resolvedUsd, paxUsdPrice)
                          ELSE Zero
       IN IF ~IsPositive(resolvedUsd) /\ ~IsPositive(resolvedEth) THEN NullPrice
          ELSE TokenPrice(Dec(toFixed(resolvedEth, 8)), normalizeUsdPrice(resolvedUsd))

\* getHLPMMTokenPrice: quoter.state tells whether the addresses are
\* configured, the factory knows a pool, and the calls succeed; quoter.spot is
\* getSpotPrice's answer.
getHLPMMTokenPrice(quoter, paxQuote) ==
  IF quoter.state # "ok" THEN NullPrice
  ELSE LET priceInUsd == normalizeUsdPrice(quoter.spot)
           paxUsdPrice == getPaxUsdPrice(paxQuote)
           priceInEth == IF IsPositive(paxUsdPrice)
                           THEN divToFixed8(priceInUsd.val, paxUsdPrice)
                           ELSE Lit0
       IN IF priceInEth.text = "0" /\ priceInUsd.text = "0" THEN NullPrice
          ELSE TokenPrice(priceInEth, priceInUsd)

\* The try block of getTokenPrice: the portfolio API, then decimals() of the
\* token and the stablecoin (a failure throws), then the router's two quotes.
\* consulted lists the sources asked, in order.
tryGetTokenPrice(env) ==
  LET apiPrice == getTokenPriceFromPortfolioApi(env.api, env.pax)
      paxUsdPrice == getPaxUsdPrice(env.pax)
      eth0 == IF env.weth.ok THEN Dec(env.weth.val) ELSE Lit0
      usd0 == IF env.usdc.ok THEN Dec(env.usdc.val) ELSE Lit0
      usd1 == IF usd0.text = "0" /\ eth0.text # "0"
                THEN normalizeUsdPrice(QMul(eth0.val, paxUsdPrice)) ELSE usd0
      eth1 == IF eth0.text = "0" /\ usd1.text # "0"
                THEN divToFixed8(usd1.val, paxUsdPrice) ELSE eth0
  IN IF ~apiPrice.isNull
       THEN [thrown |-> FALSE, value |-> apiPrice, consulted |-> <<"api">>]
     ELSE IF ~env.decimalsOk
       THEN [thrown |-> TRUE, value |-> NullPrice, consulted |-> <<"api">>]
     ELSE IF eth1.text = "0" /\ usd1.text = "0"
       THEN [thrown |-> FALSE, value |-> getHLPMMTokenPrice(env.quoter, env.pax),
             consulted |-> <<"api", "router", "quoter">>]
     ELSE [thrown |-> FALSE, value |-> TokenPrice(eth1, normalizeUsdPrice(usd1.val)),
           consulted |-> <<"api", "router">>]

\* getTokenPrice whose catch block returns null.
getTokenPriceCatchReturnsNull(env) ==
  LET r == tryGetTokenPrice(env)
  IN IF r.thrown THEN [r EXCEPT !.thrown = FALSE, !.value = NullPrice] ELSE r

\* getTokenPrice: the catch block asks the quoter.
getTokenPrice(env) ==
  LET r == tryGetTokenPrice(env)
  IN IF r.thrown
       THEN [thrown |-> FALSE, value |-> getHLPMMTokenPrice(env.quoter, env.pax),
             consulted |-> Append(r.consulted, "quoter")]
       ELSE r

\* ---------------------------------------------------------- status metrics
\* A TokenStatusMetrics record; NoMetric stands for null (and for a field the
\* explorer statistics leave undefined).
NoMetric == 0 - 1
Metrics(marketCapUsd, volume24hUsd, buyers24h, sellers24h, holders, biggestBuy24hUsd) ==
  [marketCapUsd |-> marketCapUsd, volume24hUsd |-> volume24hUsd, buyers24h |-> buyers24h,
   sellers24h |-> sellers24h, holders |-> holders, biggestBuy24hUsd |-> biggestBuy24hUsd]
AllNull == Metrics(NoMetric, NoMetric, NoMetric, NoMetric, NoMetric, NoMetric)

\* A response body: none (the request failed or the body is empty), or the
\* metrics its fields carry.
NoData == [present |-> FALSE, m |-> AllNull]
Data(m) == [present |-> TRUE, m |-> m]

\* The first fallback endpoint that answers with a body.
RECURSIVE firstFallback(_)
firstFallback(answers) ==
  IF answers = <<>> THEN NoData
  ELSE IF Head(answers).present THEN Head(answers)
  ELSE firstFallback(Tail(answers))

RECURSIVE SumOf(_, _)
SumOf(S, f) ==
  IF S = {} THEN 0
  ELSE LET x == CHOOSE y \in S : TRUE IN f[x] + SumOf(S \ {x}, f)

MaxOf(S, f) == IF S = {} THEN 0 ELSE CHOOSE v \in {f[x] : x \in S} : \A x \in S : f[x] <= v

\* What null, a number of 0 and a positive number become under `x > 0 ? x : null`.
PositiveOrNull(x) == IF x > 0 THEN x ELSE NoMetric

\* '0x0000000000000000000000000000000000000000'
zeroAddress == <<"0", "l">>

\* getPaxscanTokenStats: explorer.transfers is the tokentx answer (failed, or
\* the list, each transfer with its sender, recipient, amount and whether its
\* timestamp is within the last day), explorer.holders the holder count, and
\* priceInUsd the numeric price (0 when getTokenPrice returns null). Without
\* a router address `this.routerAddress.toLowerCase()` throws.
getPaxscanTokenStats(explorer, priceInUsd, routerConfigured) ==
  IF ~routerConfigured THEN [thrown |-> TRUE, stats |-> AllNull]
  ELSE IF explorer.failed \/ explorer.transfers = {}
    THEN [thrown |-> FALSE,
          stats |-> [AllNull EXCEPT !.holders = explorer.holders]]
  ELSE LET hasUsdPrice == priceInUsd > 0
           router == toLowerCase(routerAddress)
           valid == {[t EXCEPT !.from = toLowerCase(@), !.to = toLowerCase(@)] :
                       t \in {u \in explorer.transfers : u.inWindow /\ u.amount > 0}}
           transferUsd == [t \in valid |-> IF hasUsdPrice THEN t.amount * priceInUsd ELSE 0]
           buys == {t \in valid : t.from = router}
           sells == {t \in valid : t.from # router /\ t.to = router}
           buyerSet == {t.to : t \in buys}
           sellerSet == {t.from : t \in sells}
           genericSenderSet == {t.from : t \in valid} \ {zeroAddress, router}
           genericRecipientSet == {t.to : t \in valid} \ {zeroAddress, router}
           genericTransferCount == Cardinality({t \in valid : transferUsd[t] > 0})
           genericBiggestTransferUsd == MaxOf(valid, transferUsd)
           routerClassifiedTransferCount == Cardinality(buys) + Cardinality(sells)
           volumeRouter == SumOf(buys \cup sells, transferUsd)
           biggestRouter == MaxOf(buys, transferUsd)
           buyers0 == PositiveOrNull(Cardinality(buyerSet))
           sellers0 == PositiveOrNull(Cardinality(sellerSet))
           generic == routerClassifiedTransferCount = 0
           buyers24h == IF generic /\ genericRecipientSet # {}
                          THEN Cardinality(genericRecipientSet) ELSE buyers0
           sellers24h == IF generic /\ genericSenderSet # {}
                           THEN Cardinality(genericSenderSet) ELSE sellers0
           volume24hUsd == IF generic /\ volumeRouter <= 0 /\ genericTransferCount > 0
                             THEN volumeRouter + SumOf(valid, transferUsd)
                             ELSE volumeRouter
           biggestBuyUsd == IF generic /\ biggestRouter <= 0 /\ genericBiggestTransferUsd > 0
                              THEN genericBiggestTransferUsd ELSE biggestRouter
       IN [thrown |-> FALSE,
           stats |-> Metrics(NoMetric, PositiveOrNull(volume24hUsd), buyers24h, sellers24h,
                             explorer.holders, PositiveOrNull(biggestBuyUsd))]

\* `x === null ? y : x`
OrElse(x, y) == IF x = NoMetric THEN y ELSE x

\* The try block of getTokenStatusMetrics: the portfolio API and its fallback
\* endpoints, then for a missing market cap getTokenInfo and getTokenPrice,
\* then for any other missing field the explorer statistics.
tryGetTokenStatusMetrics(env) ==
  LET data == IF env.portfolio.present THEN env.portfolio ELSE firstFallback(env.fallbacks)
      fromData == data.m
      tokenInfo == env.tokenInfo
      priceInUsd == env.priceInUsd
      marketCapUsd ==
        IF fromData.marketCapUsd # NoMetric THEN fromData.marketCapUsd
        ELSE IF ~tokenInfo.found THEN NoMetric
        ELSE IF tokenInfo.marketCapUsd > 0 THEN tokenInfo.marketCapUsd
        ELSE IF priceInUsd > 0 /\ tokenInfo.totalSupply > 0
          THEN priceInUsd * tokenInfo.totalSupply
        ELSE NoMetric
      needExplorerFallback ==
        \/ fromData.volume24hUsd = NoMetric
        \/ fromData.buyers24h = NoMetric
        \/ fromData.sellers24h = NoMetric
        \/ fromData.holders = NoMetric
        \/ fromData.biggestBuy24hUsd = NoMetric
      explorerStats == getPaxscanTokenStats(env.explorer, priceInUsd, env.routerConfigured)
      ex == explorerStats.stats
  IN IF ~needExplorerFallback
       THEN [thrown |-> FALSE, value |-> [fromData EXCEPT !.marketCapUsd = marketCapUsd]]
     ELSE IF explorerStats.thrown
       THEN [thrown |-> TRUE, value |-> AllNull]
     ELSE [thrown |-> FALSE,
           value |-> Metrics(marketCapUsd,
                             OrElse(fromData.volume24hUsd, ex.volume24hUsd),
                             OrElse(fromData.buyers24h, ex.buyers24h),
                             OrElse(fromData.sellers24h, ex.sellers24h),
                             OrElse(fromData.holders, ex.holders),
                             OrElse(fromData.biggestBuy24hUsd, ex.biggestBuy24hUsd))]

\* getTokenStatusMetrics without its catch block.
getTokenStatusMetricsNoCatch(env) == tryGetTokenStatusMetrics(env)

\* getTokenStatusMetrics: the catch block returns the record of nulls.
getTokenStatusMetrics(env) ==
  LET r == tryGetTokenStatusMetrics(env)
  IN IF r.thrown THEN [thrown |-> FALSE, value |-> AllNull] ELSE r

\* ------------------------------------------------------------ persistence
\* chat_settings rows (read-only for the monitor): the minimum buy in cents.
chat_settings == [c \in Chats |-> [min_buy_usdc |-> IF c = "c1" THEN 0 ELSE 50000]]

\* SELECT 1 FROM detected_transactions WHERE tx_hash = $1
hasDetectedTransaction(table, txHash) == \E r \in table : r.tx_hash = txHash

\* The seventh parameter of saveDetectedTransaction, transactionValueUsd, has
\* the default null, and neither handler passes it.
NullUsdValue == "NULL"

DetectedRow(tokenAddress, txHash, type, traderAddress, tokenAmount) ==
  [token_address |-> toLowerCase(tokenAddress), tx_hash |-> txHash,
   type |-> type, trader_address |-> traderAddress, token_amount |-> tokenAmount,
   transaction_value_usd |-> NullUsdValue]

\* saveDetectedTransaction as an upsert (ON CONFLICT DO UPDATE).
saveDetectedTransactionUpsert(table, tokenAddress, txHash, type, traderAddress, tokenAmount) ==
  [table |-> {r \in table : r.tx_hash # txHash}
               \cup {DetectedRow(tokenAddress, txHash, type, traderAddress, tokenAmount)},
   inserted |-> TRUE]

\* INSERT ... ON CONFLICT (tx_hash) DO NOTHING; returns rowCount > 0.
saveDetectedTransaction(table, tokenAddress, txHash, type, traderAddress, tokenAmount) ==
  IF \E r \in table : r.tx_hash = txHash
    THEN [table |-> table, inserted |-> FALSE]
    ELSE [table |-> table \cup {DetectedRow(tokenAddress, txHash, type, traderAddress, tokenAmount)},
          inserted |-> TRUE]

\* watched_tokens rows are pairs <<chat_id, token_address>>.
getTokenWatchers(rows, tokenAddress) ==
  {r[1] : r \in {x \in rows : x[2] = toLowerCase(tokenAddress)}}

isWatchingToken(rows, chatId, tokenAddress) ==
  <<chatId, toLowerCase(tokenAddress)>> \in rows

addWatchedToken(rows, chatId, tokenAddress) ==
  rows \cup {<<chatId, toLowerCase(tokenAddress)>>}

removeWatchedToken(rows, chatId, tokenAddress) ==
  rows \ {<<chatId, toLowerCase(tokenAddress)>>}

\* DELETE FROM watched_tokens without the WHERE clause.
disableChatWatchersEveryChat(rows, chatId) == {}

\* DELETE FROM watched_tokens WHERE chat_id = $1
disableChatWatchers(rows, chatId) == {r \in rows : r[1] # chatId}

\* trader_positions is a function of <<token_address, trader_address>>.
PositionKeys == {<<toLowerCase(t), toLowerCase(w)>> : t \in {T1l, T2l}, w \in {WalletA, WalletB}}

getTraderPosition(positions, tokenAddress, traderAddress) ==
  positions[<<toLowerCase(tokenAddress), toLowerCase(traderAddress)>>]

setTraderPosition(positions, tokenAddress, traderAddress, holdingsToken) ==
  [positions EXCEPT ![<<toLowerCase(tokenAddress), toLowerCase(traderAddress)>>] = holdingsToken]

\* ------------------------------------------------------------------ state
VARIABLES
  monitoredTokens,       \* keys of the Map, in insertion order
  pollingInterval,       \* TRUE while the interval handle is set
  timers,                \* the interval timers set and not cleared
  pollingInProgress,
  lastBlockNumber,
  scan,                  \* the interval callbacks in flight, by slot
  hlpmmEnabled,
  hlpmmPoolTokenCache,
  disabledChats,
  watched_tokens,
  detected_transactions,
  trader_positions,
  hctx,                  \* the frame of the handler call in progress
  delivered,             \* alerts delivered so far, by transaction hash and chat
  other,                 \* a second process on the same database
  cls,                   \* a classifyTransfer call: inputs and result
  lbl,                   \* a computePositionLabel call: inputs and result
  pure                   \* a call of a function without effect on the monitor: inputs and result

vars == <<monitoredTokens, pollingInterval, timers, pollingInProgress, lastBlockNumber,
          scan, hlpmmEnabled, hlpmmPoolTokenCache, disabledChats, watched_tokens,
          detected_transactions, trader_positions, hctx, delivered, other, cls, lbl, pure>>

Slots == {1, 2}

\* A callback that is not running. pc is the await the callback is suspended
\* at; startHeight is lastBlockNumber when the callback started; orphan tells
\* that the timer which started it has been cleared since.
IdleScan == [pc |-> "idle", currentBlock |-> 0, fromBlock |-> 0, iter |-> 0,
             tokenAddress |-> Null, events |-> <<>>, startHeight |-> 0,
             orphan |-> FALSE, failure |-> "none"]

\* No handler call in progress.
NoHandler == [phase |-> "none", kind |-> "none", txHash |-> "", tokenAddress |-> Null,
              trader |-> Null, amount |-> 0, holdings |-> 0, classified |-> FALSE, lookup |-> FALSE,
              sent |-> {}, err |-> FALSE, inserted |-> "n/a",
              priceNull |-> FALSE, totalUsdValue |-> 0, watchers |-> {}, attempted |-> {}]

NoCall == [from |-> Null, to |-> Null, txFrom |-> Null, txTo |-> Null,
           result |-> NoClassification, returned |-> FALSE, proceeds |-> FALSE]

NoLabel == [snapshot |-> NoRow, current |-> 0, delta |-> 0, prior |-> FALSE,
            label |-> <<>>, history |-> FALSE, returned |-> FALSE,
            events |-> {}, lookup |-> "none"]

\* No call of a side-effect-free function in progress.
NoPure == [fn |-> "none"]

NoOther == [phase |-> "idle", log |-> 0, inserted |-> "n/a"]

Pools == {toLowerCase(Pool1)}

InitMonitor ==
  /\ monitoredTokens = <<>>
  /\ pollingInterval = FALSE
  /\ timers = 0
  /\ pollingInProgress = FALSE
  /\ lastBlockNumber = 0
  /\ scan = [s \in Slots |-> IdleScan]
  /\ hlpmmEnabled \in BOOLEAN
  /\ hlpmmPoolTokenCache = [p \in Pools |-> Null]
  /\ disabledChats = {}
  /\ watched_tokens = {}
  /\ detected_transactions = {}
  /\ trader_positions = [k \in PositionKeys |-> NoRow]
  /\ hctx = NoHandler
  /\ delivered = [h \in Hashes |-> [c \in Chats |-> 0]]
  /\ other = NoOther

Init ==
  /\ InitMonitor
  /\ cls = NoCall
  /\ lbl = NoLabel
  /\ pure = NoPure

\* ------------------------------------------------------------ the poller
Range(seq) == {seq[i] : i \in DOMAIN seq}

\* getBlockNumber rejecting.
RpcError == 0 - 1

\* The callback is inside the for-of loop over monitoredTokens.
InTokenLoop(sc) ==
  \/ sc.pc \in {"queryTransfer", "handleTransfer"}
  \/ sc.pc \in {"commit", "handled"} /\ hctx.kind = "transfer"

\* The callback storing the head it read however it ends.
FinishStoresHead(s, sc, completed) ==
  /\ pollingInProgress' = FALSE
  /\ scan' = [scan EXCEPT ![s] = IdleScan]
  /\ lastBlockNumber' = sc.currentBlock

\* The callback ending without `this.lastBlockNumber = currentBlock`.
FinishKeepsHeight(s, sc, completed) ==
  /\ pollingInProgress' = FALSE
  /\ scan' = [scan EXCEPT ![s] = IdleScan]
  /\ lastBlockNumber' = lastBlockNumber

\* The callback of slot s ends: the finally block clears the guard; a scan
\* that ran to `this.lastBlockNumber = currentBlock` has stored the head.
Finish(s, sc, completed) ==
  /\ pollingInProgress' = FALSE
  /\ scan' = [scan EXCEPT ![s] = IdleScan]
  /\ lastBlockNumber' = IF completed THEN sc.currentBlock ELSE lastBlockNumber

\* An awaited RPC call rejected: control is in the catch block that logs it.
Fail(s, sc, failure) ==
  /\ scan' = [scan EXCEPT ![s] = [sc EXCEPT !.pc = "caught", !.failure = failure]]
  /\ UNCHANGED <<pollingInProgress, lastBlockNumber>>

\* Control is at the head of `for (const [tokenAddress, contract] of
\* this.monitoredTokens)`: the next entry is queried, or the loop is over and
\* the second protocol's stream is queried, or the scan is complete.
Resume(s, sc) ==
  IF sc.iter < Len(monitoredTokens)
    THEN /\ scan' = [scan EXCEPT ![s] = [sc EXCEPT !.pc = "queryTransfer",
                                                  !.iter = sc.iter + 1,
                                                  !.tokenAddress = monitoredTokens[sc.iter + 1],
                                                  !.events = <<>>]]
         /\ UNCHANGED <<pollingInProgress, lastBlockNumber>>
    ELSE IF hlpmmEnabled
           THEN /\ scan' = [scan EXCEPT ![s] = [sc EXCEPT !.pc = "querySwap",
                                                         !.tokenAddress = Null,
                                                         !.events = <<>>]]
                /\ UNCHANGED <<pollingInProgress, lastBlockNumber>>
           ELSE Finish(s, sc, TRUE)

\* The interval callback without the pollingInProgress test.
TickUnguarded(s) ==
  /\ pollingInterval
  /\ scan[s].pc = "idle"
  /\ \A t \in Slots : t < s => scan[t].pc # "idle"
  /\ pollingInProgress' = TRUE
  /\ scan' = [scan EXCEPT ![s] = [IdleScan EXCEPT !.pc = "getBlock",
                                                   !.startHeight = lastBlockNumber]]
  /\ UNCHANGED <<monitoredTokens, pollingInterval, timers, lastBlockNumber, hlpmmEnabled,
                 hlpmmPoolTokenCache, disabledChats, watched_tokens,
                 detected_transactions, trader_positions, hctx, delivered,
                 other, cls, lbl, pure>>

\* The interval fires and no scan is in flight: the callback sets the guard
\* and calls getBlockNumber. (With a scan in flight the callback returns at
\* once and no variable changes: that tick is a stuttering step.)
Tick(s) ==
  /\ pollingInterval
  /\ ~pollingInProgress
  /\ scan[s].pc = "idle"
  /\ \A t \in Slots : t < s => scan[t].pc # "idle"
  /\ pollingInProgress' = TRUE
  /\ scan' = [scan EXCEPT ![s] = [IdleScan EXCEPT !.pc = "getBlock",
                                                   !.startHeight = lastBlockNumber]]
  /\ UNCHANGED <<monitoredTokens, pollingInterval, timers, lastBlockNumber, hlpmmEnabled,
                 hlpmmPoolTokenCache, disabledChats, watched_tokens,
                 detected_transactions, trader_positions, hctx, delivered,
                 other, cls, lbl, pure>>

\* fromBlock computed as lastBlockNumber (the last scanned block again).
fromBlockOverlapping(currentBlock) ==
  IF lastBlockNumber = 0 THEN currentBlock ELSE lastBlockNumber

fromBlockOf(currentBlock) ==
  IF lastBlockNumber = 0 THEN currentBlock ELSE lastBlockNumber + 1

\* getBlockNumber settles.
GetBlock(s) ==
  /\ scan[s].pc = "getBlock"
  /\ \E r \in (1..MaxHead) \cup {RpcError} :
       IF r = RpcError
         THEN Fail(s, scan[s], "head")
         ELSE IF r > lastBlockNumber
                THEN Resume(s, [scan[s] EXCEPT !.currentBlock = r,
                                              !.fromBlock = fromBlockOf(r),
                                              !.iter = 0])
                ELSE Finish(s, [scan[s] EXCEPT !.currentBlock = r], FALSE)
  /\ UNCHANGED <<monitoredTokens, pollingInterval, timers, hlpmmEnabled,
                 hlpmmPoolTokenCache, disabledChats, watched_tokens,
                 detected_transactions, trader_positions, hctx, delivered,
                 other, cls, lbl, pure>>

\* queryFilter(Transfer) of the current token settles.
QueryTransfer(s) ==
  /\ scan[s].pc = "queryTransfer"
  /\ \E ok \in BOOLEAN :
       IF ~ok
         THEN Fail(s, scan[s], "transfer")
         ELSE LET events == queryFilterTransfer(scan[s].tokenAddress,
                                                scan[s].fromBlock, scan[s].currentBlock)
              IN IF events = <<>>
                   THEN Resume(s, scan[s])
                   ELSE /\ scan' = [scan EXCEPT ![s].pc = "handleTransfer",
                                                ![s].events = events]
                        /\ UNCHANGED <<pollingInProgress, lastBlockNumber>>
  /\ UNCHANGED <<monitoredTokens, pollingInterval, timers, hlpmmEnabled,
                 hlpmmPoolTokenCache, disabledChats, watched_tokens,
                 detected_transactions, trader_positions, hctx, delivered,
                 other, cls, lbl, pure>>

\* queryFilter(Swap) of the event emitter settles.
QuerySwap(s) ==
  /\ scan[s].pc = "querySwap"
  /\ \E ok \in BOOLEAN :
       IF ~ok
         THEN Fail(s, scan[s], "swap")
         ELSE LET events == queryFilterSwap(scan[s].fromBlock, scan[s].currentBlock)
              IN IF events = <<>>
                   THEN Finish(s, scan[s], TRUE)
                   ELSE /\ scan' = [scan EXCEPT ![s].pc = "handleSwap",
                                                ![s].events = events]
                        /\ UNCHANGED <<pollingInProgress, lastBlockNumber>>
  /\ UNCHANGED <<monitoredTokens, pollingInterval, timers, hlpmmEnabled,
                 hlpmmPoolTokenCache, disabledChats, watched_tokens,
                 detected_transactions, trader_positions, hctx, delivered,
                 other, cls, lbl, pure>>

\* The catch block returns. A rejection of getBlockNumber or of a Transfer
\* query was caught by the outer try: the scan is abandoned. A rejection of
\* the Swap query was caught by the inner try: the scan runs on to
\* `this.lastBlockNumber = currentBlock`.
Caught(s) ==
  /\ scan[s].pc = "caught"
  /\ Finish(s, scan[s], scan[s].failure = "swap")
  /\ UNCHANGED <<monitoredTokens, pollingInterval, timers, hlpmmEnabled,
                 hlpmmPoolTokenCache, disabledChats, watched_tokens,
                 detected_transactions, trader_positions, hctx, delivered,
                 other, cls, lbl, pure>>

\* `await this.handle...Event(...)` resumes: the loop over the events goes
\* on, or the next token is queried, or the scan is complete.
NextEvent(s) ==
  /\ scan[s].pc = "handled"
  /\ LET sc == [scan[s] EXCEPT !.events = Tail(@)]
     IN IF sc.events # <<>>
          THEN /\ scan' = [scan EXCEPT ![s] = [sc EXCEPT !.pc = IF hctx.kind = "transfer"
                                                                THEN "handleTransfer"
                                                                ELSE "handleSwap"]]
               /\ UNCHANGED <<pollingInProgress, lastBlockNumber>>
          ELSE IF hctx.kind = "transfer" THEN Resume(s, sc) ELSE Finish(s, sc, TRUE)
  /\ hctx' = NoHandler
  /\ UNCHANGED <<monitoredTokens, pollingInterval, timers, hlpmmEnabled,
                 hlpmmPoolTokenCache, disabledChats, watched_tokens,
                 detected_transactions, trader_positions, delivered,
                 other, cls, lbl, pure>>

\* ------------------------------------------------- watching and unwatching
\* startMonitoringToken calling startPolling without the test of the handle.
startMonitoringTokenAlwaysPolls(tokenAddress) ==
  IF tokenAddress \in Range(monitoredTokens)
    THEN UNCHANGED <<monitoredTokens, pollingInterval, timers, scan>>
    ELSE /\ monitoredTokens' = Append(monitoredTokens, tokenAddress)
         /\ pollingInterval' = TRUE
         /\ timers' = timers + 1
         /\ UNCHANGED scan

\* startMonitoringToken: a key already present is left alone; a new key is
\* appended and polling is started when no interval handle is set.
startMonitoringToken(tokenAddress) ==
  IF tokenAddress \in Range(monitoredTokens)
    THEN UNCHANGED <<monitoredTokens, pollingInterval, timers, scan>>
    ELSE /\ monitoredTokens' = Append(monitoredTokens, tokenAddress)
         /\ pollingInterval' = TRUE
         /\ timers' = IF pollingInterval THEN timers ELSE timers + 1
         /\ UNCHANGED scan

\* stopMonitoringToken: Map.delete, then clearInterval when the Map is empty.
\* A Map iterator in flight that has passed the deleted entry moves back by
\* one; a scan whose timer is cleared goes on as an orphan.
stopMonitoringToken(tokenAddress) ==
  LET pos == IF tokenAddress \in Range(monitoredTokens)
               THEN CHOOSE i \in DOMAIN monitoredTokens : monitoredTokens[i] = tokenAddress
               ELSE 0
      remaining == SelectSeq(monitoredTokens, LAMBDA k : k # tokenAddress)
      cleared == Len(remaining) = 0 /\ pollingInterval
  IN /\ monitoredTokens' = remaining
     /\ pollingInterval' = IF cleared THEN FALSE ELSE pollingInterval
     /\ timers' = IF cleared THEN timers - 1 ELSE timers
     /\ scan' = [s \in Slots |->
           IF scan[s].pc = "idle" THEN scan[s]
           ELSE [scan[s] EXCEPT
                   !.iter = IF InTokenLoop(scan[s]) /\ pos # 0 /\ pos <= @ THEN @ - 1 ELSE @,
                   !.orphan = @ \/ cleared]]

\* /watch <token_address> of a chat that is not yet watching the token.
HandleWatch(chatId, tokenAddress) ==
  /\ ~isWatchingToken(watched_tokens, chatId, tokenAddress)
  /\ watched_tokens' = addWatchedToken(watched_tokens, chatId, tokenAddress)
  /\ startMonitoringToken(tokenAddress)
  /\ UNCHANGED <<pollingInProgress, lastBlockNumber, hlpmmEnabled, hlpmmPoolTokenCache,
                 disabledChats, detected_transactions, trader_positions, hctx,
                 delivered, other, cls, lbl, pure>>

\* /unwatch <token_address> of a chat that is watching the token.
HandleUnwatch(chatId, tokenAddress) ==
  /\ isWatchingToken(watched_tokens, chatId, tokenAddress)
  /\ watched_tokens' = removeWatchedToken(watched_tokens, chatId, tokenAddress)
  /\ IF getTokenWatchers(watched_tokens', tokenAddress) = {}
       THEN stopMonitoringToken(tokenAddress)
       ELSE UNCHANGED <<monitoredTokens, pollingInterval, timers, scan>>
  /\ UNCHANGED <<pollingInProgress, lastBlockNumber, hlpmmEnabled, hlpmmPoolTokenCache,
                 disabledChats, detected_transactions, trader_positions, hctx,
                 delivered, other, cls, lbl, pure>>

\* ------------------------------------------------------------- the fan-out
\* What happens at one chat: the send succeeds, fails, fails because the bot
\* was kicked (with the unsubscription succeeding or failing), or reading the
\* chat's settings or alert links throws.
SendOutcomes == {"ok", "fail", "kicked", "kickedDisableFails", "settingsError", "linksError"}

\* getTokenPrice result: null, or priceInUsd in cents per token.
NoPrice == 0 - 1
Prices == {NoPrice, 1, 50}
\* balanceOf(trader) results.
Balances == {500, 1500}

\* parseFloat(price?.priceInUsd || '0')
priceInUsdNumeric(price) == IF price = NoPrice THEN 0 ELSE price

\* The orders in which the watcher rows may come back.
Orders(W) == {q \in [1..Cardinality(W) -> W] : \A i, j \in 1..Cardinality(W) : q[i] = q[j] => i = j}

\* The loop `for (const watcher of watchers)`: acc collects the chats a send
\* was attempted for, the chats it succeeded for, the disabledChats set, the
\* watched_tokens rows, and whether an exception left the loop.
RECURSIVE FanOut(_, _, _, _)
FanOut(watchers, totalUsdValue, out, acc) ==
  IF watchers = <<>> THEN acc
  ELSE LET c == Head(watchers)
           rest == Tail(watchers)
       IN IF out[c] = "settingsError" THEN [acc EXCEPT !.err = TRUE]
          ELSE IF totalUsdValue < chat_settings[c].min_buy_usdc
            THEN FanOut(rest, totalUsdValue, out, acc)
          ELSE IF out[c] = "linksError" THEN [acc EXCEPT !.err = TRUE]
          ELSE IF out[c] = "ok"
            THEN FanOut(rest, totalUsdValue, out,
                        [acc EXCEPT !.sent = @ \cup {c}, !.attempted = @ \cup {c}])
          ELSE IF out[c] \in {"kicked", "kickedDisableFails"} /\ c \notin acc.disabled
            THEN FanOut(rest, totalUsdValue, out,
                        [acc EXCEPT !.attempted = @ \cup {c},
                                    !.disabled = @ \cup {c},
                                    !.rows = IF out[c] = "kicked"
                                               THEN disableChatWatchers(@, c) ELSE @])
          ELSE FanOut(rest, totalUsdValue, out, [acc EXCEPT !.attempted = @ \cup {c}])

Min(a, b) == IF a <= b THEN a ELSE b

\* The delivery log after the sends of one handler call (counted up to 2).
Deliver(txHash, sent) ==
  [delivered EXCEPT ![txHash] = [c \in Chats |-> IF c \in sent THEN Min(2, @[c] + 1) ELSE @[c]]]

\* ------------------------------------------------------------ the handlers
\* The handler returns (or its catch block logs) before any send.
Return(s, h) ==
  /\ hctx' = [h EXCEPT !.phase = "done"]
  /\ scan' = [scan EXCEPT ![s].pc = "handled"]
  /\ UNCHANGED <<disabledChats, watched_tokens, delivered>>

\* The commit test with `>= 0` in place of `> 0`.
ShouldCommitAlways(deliveredCount) == deliveredCount >= 0

\* `if (deliveredCount > 0)`
ShouldCommit(deliveredCount) == deliveredCount > 0

\* From getTokenWatchers to the end of the loop over the watchers. With at
\* least one delivery the handler calls saveDetectedTransaction and waits for
\* the database (phase "commit"); otherwise it is done.
Notify(s, h, totalUsdValue) ==
  LET watchers == getTokenWatchers(watched_tokens, h.tokenAddress)
      looked == [h EXCEPT !.lookup = TRUE, !.totalUsdValue = totalUsdValue,
                          !.watchers = watchers]
  IN IF watchers = {}
       THEN Return(s, looked)
       ELSE \E order \in Orders(watchers), out \in [watchers -> SendOutcomes] :
              LET fan == FanOut(order, totalUsdValue, out,
                                [attempted |-> {}, sent |-> {}, disabled |-> disabledChats,
                                 rows |-> watched_tokens, err |-> FALSE])
                  deliveredCount == Cardinality(fan.sent)
                  commits == ~fan.err /\ ShouldCommit(deliveredCount)
              IN /\ disabledChats' = fan.disabled
                 /\ watched_tokens' = fan.rows
                 /\ delivered' = Deliver(h.txHash, fan.sent)
                 /\ hctx' = [looked EXCEPT !.phase = IF commits THEN "commit" ELSE "done",
                                           !.sent = fan.sent, !.err = fan.err,
                                           !.attempted = fan.attempted]
                 /\ scan' = [scan EXCEPT ![s].pc = IF commits THEN "commit" ELSE "handled"]

\* handleTransferEvent up to the call of saveDetectedTransaction. pre tells
\* whether getTransaction found the transaction and whether one of the later
\* reads (receipt, balanceOf, getTraderPosition, hasDetectedTransaction,
\* getTokenWatchers) failed.
HandleTransferEvent(s) ==
  /\ scan[s].pc = "handleTransfer"
  /\ LET e == ChainLogs[Head(scan[s].events)]
         tokenAddress == scan[s].tokenAddress
         classification == classifyTransfer(e.from, e.to, e.txFrom, e.txTo)
         h0 == [NoHandler EXCEPT !.kind = "transfer", !.txHash = e.txHash,
                                 !.tokenAddress = tokenAddress]
         h1 == [h0 EXCEPT !.classified = TRUE, !.trader = classification.trader,
                          !.amount = e.value]
     IN \E pre \in {"ok", "noTx", "error"} :
          IF pre = "noTx" \/ classification = NoClassification
            THEN Return(s, h0)
          ELSE IF pre = "error"
            THEN Return(s, [h1 EXCEPT !.err = TRUE])
          ELSE IF hasDetectedTransaction(detected_transactions, e.txHash)
            THEN Return(s, h1)
          ELSE \E price \in Prices, balance \in Balances :
                 Notify(s, [h1 EXCEPT !.holdings = balance, !.priceNull = (price = NoPrice)],
                        e.value * priceInUsdNumeric(price))
  /\ UNCHANGED <<monitoredTokens, pollingInterval, timers, pollingInProgress, lastBlockNumber,
                 hlpmmEnabled, hlpmmPoolTokenCache, detected_transactions,
                 trader_positions, other, cls, lbl, pure>>

\* resolveHLPMMPoolToken: the cached token of the pool, else the factory's
\* answer, lower-cased and cached; null when the call fails or yields nothing.
resolveHLPMMPoolToken(poolAddress, factoryOk) ==
  LET normalized == toLowerCase(poolAddress)
      cached == hlpmmPoolTokenCache[normalized]
      tokenAddr == poolToToken(poolAddress)
  IN IF cached # Null THEN [token |-> cached, cache |-> hlpmmPoolTokenCache]
     ELSE IF ~factoryOk \/ tokenAddr = Null
       THEN [token |-> Null, cache |-> hlpmmPoolTokenCache]
     ELSE [token |-> toLowerCase(tokenAddr),
           cache |-> [hlpmmPoolTokenCache EXCEPT ![normalized] = toLowerCase(tokenAddr)]]

\* handleHLPMMSwapEvent up to the call of saveDetectedTransaction.
HandleHLPMMSwapEvent(s) ==
  /\ scan[s].pc = "handleSwap"
  /\ LET e == ChainLogs[Head(scan[s].events)]
         isBuy == toLowerCase(e.tokenIn) = hlpmmUsidAddress
         tokenAddress == toLowerCase(e.tokenOut)
         monitored == Range(monitoredTokens)
         h0 == [NoHandler EXCEPT !.kind = "swap", !.txHash = e.txHash,
                                 !.tokenAddress = tokenAddress]
         h1 == [h0 EXCEPT !.classified = TRUE, !.trader = e.txFrom, !.amount = e.value]
     IN IF ~isBuy
          THEN /\ Return(s, h0)
               /\ UNCHANGED hlpmmPoolTokenCache
          ELSE IF tokenAddress \notin monitored
            THEN \E factoryOk \in BOOLEAN :
                   LET resolved == resolveHLPMMPoolToken(e.pool, factoryOk)
                   IN /\ hlpmmPoolTokenCache' = resolved.cache
                      /\ IF resolved.token = Null \/ resolved.token \notin monitored
                           THEN Return(s, h0)
                           ELSE \E pre \in {"ok", "error"} :
                                  IF pre = "error"
                                    THEN Return(s, [h1 EXCEPT !.err = TRUE])
                                  ELSE IF hasDetectedTransaction(detected_transactions, e.txHash)
                                    THEN Return(s, h1)
                                  ELSE \E balance \in Balances :
                                         Notify(s, [h1 EXCEPT !.holdings = balance], e.amountIn)
          ELSE /\ UNCHANGED hlpmmPoolTokenCache
               /\ \E pre \in {"ok", "error"} :
                    IF pre = "error"
                      THEN Return(s, [h1 EXCEPT !.err = TRUE])
                    ELSE IF hasDetectedTransaction(detected_transactions, e.txHash)
                      THEN Return(s, h1)
                    ELSE \E balance \in Balances :
                           Notify(s, [h1 EXCEPT !.holdings = balance], e.amountIn)
  /\ UNCHANGED <<monitoredTokens, pollingInterval, timers, pollingInProgress, lastBlockNumber,
                 hlpmmEnabled, detected_transactions, trader_positions, other, cls, lbl, pure>>

\* Commit in a handler without its try/catch: a throw of the database reaches
\* the catch block of the interval callback.
CommitThrowsToScan(s) ==
  /\ scan[s].pc = "commit"
  /\ \E fault \in {"none", "save", "position"} :
       LET res == saveDetectedTransaction(detected_transactions, hctx.tokenAddress,
                                          hctx.txHash, "buy", hctx.trader, hctx.amount)
       IN /\ detected_transactions' = IF fault = "save" THEN detected_transactions
                                      ELSE res.table
          /\ trader_positions' =
               IF fault # "none" THEN trader_positions
               ELSE setTraderPosition(trader_positions, hctx.tokenAddress,
                                      hctx.trader, hctx.holdings)
          /\ hctx' = [hctx EXCEPT !.phase = "done", !.err = (fault # "none")]
          /\ scan' = [scan EXCEPT ![s].pc = IF fault = "none" THEN "handled" ELSE "caught",
                                  ![s].failure = IF fault = "none" THEN @ ELSE "handler"]
  /\ UNCHANGED <<monitoredTokens, pollingInterval, timers, pollingInProgress, lastBlockNumber,
                 hlpmmEnabled, hlpmmPoolTokenCache, disabledChats, watched_tokens,
                 delivered, other, cls, lbl, pure>>

\* The database answers saveDetectedTransaction and then setTraderPosition;
\* either may throw, which ends the handler in its catch block.
Commit(s) ==
  /\ scan[s].pc = "commit"
  /\ \E fault \in {"none", "save", "position"} :
       LET res == saveDetectedTransaction(detected_transactions, hctx.tokenAddress,
                                          hctx.txHash, "buy", hctx.trader, hctx.amount)
       IN IF fault = "save"
            THEN /\ UNCHANGED <<detected_transactions, trader_positions>>
                 /\ hctx' = [hctx EXCEPT !.phase = "done", !.err = TRUE]
            ELSE /\ detected_transactions' = res.table
                 /\ trader_positions' =
                      IF fault = "position" THEN trader_positions
                      ELSE setTraderPosition(trader_positions, hctx.tokenAddress,
                                             hctx.trader, hctx.holdings)
                 /\ hctx' = [hctx EXCEPT !.phase = "done", !.err = (fault # "none"),
                                         !.inserted = IF res.inserted THEN "yes" ELSE "no"]
  /\ scan' = [scan EXCEPT ![s].pc = "handled"]
  /\ UNCHANGED <<monitoredTokens, pollingInterval, timers, pollingInProgress, lastBlockNumber,
                 hlpmmEnabled, hlpmmPoolTokenCache, disabledChats, watched_tokens,
                 delivered, other, cls, lbl, pure>>

\* ------------------------------------------------- a second process
\* A second instance of the program on the same database, seen at the
\* database: its handler has found hasDetectedTransaction false for the
\* transaction of log i and has delivered the alert ...
OtherObserve(i) ==
  /\ other.phase # "observed"
  /\ ChainLogs[i].kind = "transfer"
  /\ classifyTransfer(ChainLogs[i].from, ChainLogs[i].to,
                      ChainLogs[i].txFrom, ChainLogs[i].txTo) # NoClassification
  /\ ~hasDetectedTransaction(detected_transactions, ChainLogs[i].txHash)
  /\ other' = [phase |-> "observed", log |-> i, inserted |-> "n/a"]
  /\ UNCHANGED <<monitoredTokens, pollingInterval, timers, pollingInProgress, lastBlockNumber,
                 scan, hlpmmEnabled, hlpmmPoolTokenCache, disabledChats, watched_tokens,
                 detected_transactions, trader_positions, hctx, delivered, cls, lbl, pure>>

\* ... and now its saveDetectedTransaction and setTraderPosition reach the
\* database.
OtherCommit ==
  /\ other.phase = "observed"
  /\ \E balance \in Balances :
       LET e == ChainLogs[other.log]
           trader == classifyTransfer(e.from, e.to, e.txFrom, e.txTo).trader
           res == saveDetectedTransaction(detected_transactions, e.token, e.txHash,
                                          "buy", trader, e.value)
       IN /\ detected_transactions' = res.table
          /\ trader_positions' = setTraderPosition(trader_positions, e.token, trader, balance)
          /\ other' = [other EXCEPT !.phase = "saved",
                                    !.inserted = IF res.inserted THEN "yes" ELSE "no"]
  /\ UNCHANGED <<monitoredTokens, pollingInterval, timers, pollingInProgress, lastBlockNumber,
                 scan, hlpmmEnabled, hlpmmPoolTokenCache, disabledChats, watched_tokens,
                 hctx, delivered, cls, lbl, pure>>

\* ------------------------------------------------------ the specifications
\* The monitor with the chats of `chats` typing the addresses of `inputs`.
NextOf(chats, inputs) ==
  \/ \E s \in Slots : Tick(s)
  \/ \E s \in Slots : GetBlock(s)
  \/ \E s \in Slots : QueryTransfer(s)
  \/ \E s \in Slots : HandleTransferEvent(s)
  \/ \E s \in Slots : QuerySwap(s)
  \/ \E s \in Slots : HandleHLPMMSwapEvent(s)
  \/ \E s \in Slots : Commit(s)
  \/ \E s \in Slots : NextEvent(s)
  \/ \E s \in Slots : Caught(s)
  \/ \E c \in chats, a \in inputs : HandleWatch(c, a)
  \/ \E c \in chats, a \in inputs : HandleUnwatch(c, a)

\* Two chats watching one token: the fan-out and the commit.
Next == NextOf(Chats, {T1l})
Spec == Init /\ [][Next]_vars

\* One chat watching two tokens: the scan over several tokens.
NextPoller == NextOf({"c1"}, {T1l, T2l})
SpecPoller == Init /\ [][NextPoller]_vars

\* One chat, one token, and a second process writing to the same database.
Next2P ==
  \/ NextOf({"c1"}, {T1l})
  \/ \E i \in LogIds : OtherObserve(i)
  \/ OtherCommit
Spec2P == Init /\ [][Next2P]_vars

\* ------------------------------------------------------------- shutdown
\* The process from main() on: the steps of the signal handler taken so far
\* (log), where the handler is (pc), whether Database.singletonLockClient is
\* set, whether its session holds the advisory lock, the provider, the bot's
\* polling and the pool.
Running ==
  [fn |-> "shutdown", pc |-> "running", log |-> <<>>, singletonLockClient |-> FALSE,
   sessionLock |-> FALSE, heldAtSignal |-> FALSE, providerDestroyed |-> FALSE,
   botPolling |-> TRUE, poolOpen |-> TRUE, stopped |-> FALSE]

InitShutdown ==
  /\ InitMonitor
  /\ cls = NoCall
  /\ lbl = NoLabel
  /\ pure = Running

ShutdownFrame ==
  UNCHANGED <<pollingInterval, timers, pollingInProgress, lastBlockNumber,
              scan, hlpmmEnabled, hlpmmPoolTokenCache, disabledChats, watched_tokens,
              detected_transactions, trader_positions, hctx, delivered, other, cls, lbl>>

\* Database.acquireSingletonProcessLock. main() does not call it; the action
\* is a call of the public method, so that the release is also made with the
\* lock held. A rejected connect or query leaves the fields unset.
AcquireSingletonProcessLock ==
  /\ pure.pc = "running"
  /\ ~pure.singletonLockClient
  /\ \E ok \in BOOLEAN :
       pure' = [pure EXCEPT !.singletonLockClient = ok, !.sessionLock = ok]
  /\ UNCHANGED monitoredTokens
  /\ ShutdownFrame

\* SIGINT or SIGTERM arrives between two scans.
Signal ==
  /\ pure.pc = "running"
  /\ \A s \in Slots : scan[s].pc = "idle"
  /\ pure' = [pure EXCEPT !.pc = "stop", !.heldAtSignal = pure.singletonLockClient]
  /\ UNCHANGED monitoredTokens
  /\ ShutdownFrame

\* `await monitoringService.stop()`: the listeners are removed, the Map is
\* cleared, the provider is destroyed; the interval handle is left as it is.
\* A rejected destroy() ends the handler.
Stop ==
  /\ pure.pc = "stop"
  /\ monitoredTokens' = <<>>
  /\ \E ok \in BOOLEAN :
       pure' = IF ok THEN [pure EXCEPT !.pc = "botStop", !.log = Append(@, "stop"),
                                       !.providerDestroyed = TRUE, !.stopped = TRUE]
               ELSE [pure EXCEPT !.pc = "rejected"]
  /\ ShutdownFrame

\* `await bot.stop()`: stopPolling, which may reject.
BotStop ==
  /\ pure.pc = "botStop"
  /\ \E ok \in BOOLEAN :
       pure' = IF ok THEN [pure EXCEPT !.pc = "release", !.log = Append(@, "botStop"),
                                       !.botPolling = FALSE]
               ELSE [pure EXCEPT !.pc = "rejected"]
  /\ UNCHANGED monitoredTokens
  /\ ShutdownFrame

\* releaseSingletonProcessLock unsetting its fields only after an unlock
\* query that succeeded.
ReleaseKeepsClient ==
  /\ pure.pc = "release"
  /\ pure' = IF ~pure.singletonLockClient
               THEN [pure EXCEPT !.pc = "poolEnd", !.log = Append(@, "release")]
               ELSE [pure EXCEPT !.pc = "unlock"]
  /\ UNCHANGED monitoredTokens
  /\ ShutdownFrame

\* releaseSingletonProcessLock up to its await: it returns at once without a
\* client, else it unsets the fields and sends the unlock query.
ReleaseSingletonProcessLock ==
  /\ pure.pc = "release"
  /\ pure' = IF ~pure.singletonLockClient
               THEN [pure EXCEPT !.pc = "poolEnd", !.log = Append(@, "release")]
               ELSE [pure EXCEPT !.pc = "unlock", !.singletonLockClient = FALSE]
  /\ UNCHANGED monitoredTokens
  /\ ShutdownFrame

\* The unlock query settles: a failure is logged, and the client goes back
\* to the pool either way.
Unlock ==
  /\ pure.pc = "unlock"
  /\ \E ok \in BOOLEAN :
       pure' = [pure EXCEPT !.pc = "poolEnd", !.log = @ \o <<"unlock", "release">>,
                            !.sessionLock = IF ok THEN FALSE ELSE @]
  /\ UNCHANGED monitoredTokens
  /\ ShutdownFrame

\* `await this.pool.end()`, which closes the sessions; then process.exit(0).
\* A failure is thrown on by close().
PoolEnd ==
  /\ pure.pc = "poolEnd"
  /\ \E ok \in BOOLEAN :
       pure' = IF ok THEN [pure EXCEPT !.pc = "exit", !.log = Append(@, "poolEnd"),
                                       !.poolOpen = FALSE, !.sessionLock = FALSE]
               ELSE [pure EXCEPT !.pc = "rejected"]
  /\ UNCHANGED monitoredTokens
  /\ ShutdownFrame

\* getBlockNumber on the destroyed provider rejects.
GetBlockDestroyed(s) ==
  /\ scan[s].pc = "getBlock"
  /\ Fail(s, scan[s], "head")
  /\ UNCHANGED <<monitoredTokens, pollingInterval, timers, hlpmmEnabled,
                 hlpmmPoolTokenCache, disabledChats, watched_tokens,
                 detected_transactions, trader_positions, hctx, delivered,
                 other, cls, lbl, pure>>

\* The handler is between the return of stop() and process.exit.
AfterStop == pure.pc \in {"botStop", "release", "unlock", "poolEnd"}

NextShutdown ==
  \/ pure.pc = "running" /\ NextOf({"c1"}, {T1l})
  \/ AcquireSingletonProcessLock
  \/ Signal
  \/ Stop
  \/ BotStop
  \/ ReleaseSingletonProcessLock
  \/ Unlock
  \/ PoolEnd
  \/ AfterStop /\ \E s \in Slots : Tick(s)
  \/ AfterStop /\ \E s \in Slots : GetBlockDestroyed(s)
  \/ AfterStop /\ \E s \in Slots : Caught(s)
  \/ AfterStop /\ pure.botPolling /\ HandleWatch("c1", T1l)
  \/ AfterStop /\ pure.botPolling /\ HandleUnwatch("c1", T1l)
SpecShutdown == InitShutdown /\ [][NextShutdown]_vars

\* ------------------------------------------ calls of the pure functions
\* Arguments classifyTransfer is called with: the router, the pair and the
\* wallets in both spellings, and a transaction without destination.
ClassifyFroms == {routerAddress, toLowerCase(routerAddress), PairX, WalletA}
ClassifyTos == {WalletA, toLowerCase(WalletA), WalletB}
ClassifyTxFroms == {WalletA, toLowerCase(WalletA), WalletB}
ClassifyTxTos == {routerAddress, toLowerCase(routerAddress), PairX, Null}

InitClassify ==
  /\ InitMonitor
  /\ cls \in {[NoCall EXCEPT !.from = f, !.to = t, !.txFrom = tf, !.txTo = tt] :
                f \in ClassifyFroms, t \in ClassifyTos,
                tf \in ClassifyTxFroms, tt \in ClassifyTxTos}
  /\ lbl = NoLabel
  /\ pure = NoPure

\* `const classification = this.classifyTransfer(from, to, tx);
\*  if (!classification) return;`
Classify ==
  /\ ~cls.returned
  /\ LET classification == classifyTransfer(cls.from, cls.to, cls.txFrom, cls.txTo)
     IN cls' = [cls EXCEPT !.result = classification, !.returned = TRUE,
                           !.proceeds = (classification # NoClassification)]
  /\ UNCHANGED <<monitoredTokens, pollingInterval, timers, pollingInProgress, lastBlockNumber,
                 scan, hlpmmEnabled, hlpmmPoolTokenCache, disabledChats, watched_tokens,
                 detected_transactions, trader_positions, hctx, delivered, other, lbl, pure>>

SpecClassify == InitClassify /\ [][Classify]_vars

\* Arguments computePositionLabel is called with: the holdings of the
\* persisted row (or no row), the holdings read from the chain, and the amount
\* of the event.
LabelSnapshots == {NoRow, 0, 3, 100, 500}
LabelCurrents == {0, 2, 3, 5, 40, 100, 150, 1500}
LabelDeltas == {0, 1, 10, 50, 150, 1000}

\* The transaction the label is computed for, and the Transfer logs of the
\* token that may name the wallet: in an earlier block, earlier in the same
\* block, in the transaction itself, and later in the same block.
CurrentTx == HistoryEvent("cur", 2, 1)
HistoryEvents == {HistoryEvent("p0", 1, 0), HistoryEvent("p1", 2, 0),
                  HistoryEvent("cur", 2, 1), HistoryEvent("p2", 2, 2)}
Lookups == {"ok", "rangeLimit", "error"}

InitLabel ==
  /\ InitMonitor
  /\ cls = NoCall
  /\ lbl \in {[NoLabel EXCEPT !.snapshot = sn, !.current = c, !.delta = d] :
                sn \in LabelSnapshots, c \in LabelCurrents, d \in LabelDeltas}
  /\ pure = NoPure

\* computePositionLabel runs: with a usable snapshot it returns without the
\* history lookup; otherwise hasPriorTokenInteraction queries the chain, whose
\* logs and answer are the environment's.
ComputeLabel ==
  /\ ~lbl.returned
  /\ IF computePositionLabel(lbl.snapshot, lbl.current, lbl.delta, FALSE).history
       THEN \E events \in SUBSET HistoryEvents, lookup \in Lookups :
              LET prior == hasPriorTokenInteraction(events, CurrentTx.txHash, CurrentTx.block,
                                                    CurrentTx.txIndex, lookup)
                  res == computePositionLabel(lbl.snapshot, lbl.current, lbl.delta, prior)
              IN lbl' = [lbl EXCEPT !.label = res.label, !.history = res.history,
                                    !.returned = TRUE, !.prior = prior,
                                    !.events = events, !.lookup = lookup]
       ELSE LET res == computePositionLabel(lbl.snapshot, lbl.current, lbl.delta, FALSE)
            IN lbl' = [lbl EXCEPT !.label = res.label, !.history = res.history,
                                  !.returned = TRUE]
  /\ UNCHANGED <<monitoredTokens, pollingInterval, timers, pollingInProgress, lastBlockNumber,
                 scan, hlpmmEnabled, hlpmmPoolTokenCache, disabledChats, watched_tokens,
                 detected_transactions, trader_positions, hctx, delivered, other, cls, pure>>

SpecLabel == InitLabel /\ [][ComputeLabel]_vars

\* The answers of the sources getTokenPrice may meet: the portfolio API's
\* fields, decimals(), the router's quotes on the native and the stablecoin
\* path (failed, zero or positive), the router's native/USD quote, and the
\* quoter.
ApiUsds == {Absent, Answer(Num(2, 1))}
ApiEths == {Absent, Answer(Num(1, 2))}
WethQuotes == {Absent, Answer(Zero), Answer(Num(1, 4))}
UsdcQuotes == {Absent, Answer(Zero), Answer(Num(3, 1))}
PaxQuotes == {Absent, Answer(Zero), Answer(Num(4, 1))}
Quoters == {[state |-> st, spot |-> Zero] : st \in {"unconfigured", "noPool", "throws"}}
             \cup {[state |-> "ok", spot |-> sp] : sp \in {Zero, Num(3, 4), Num(1, 1)}}

PriceEnvs == {[api |-> [usd |-> u, eth |-> e], decimalsOk |-> d, weth |-> w, usdc |-> c,
               pax |-> p, quoter |-> q] :
                u \in ApiUsds, e \in ApiEths, d \in BOOLEAN, w \in WethQuotes,
                c \in UsdcQuotes, p \in PaxQuotes, q \in Quoters}

InitPrice ==
  /\ InitMonitor
  /\ cls = NoCall
  /\ lbl = NoLabel
  /\ pure \in {[fn |-> "getTokenPrice", env |-> env, returned |-> FALSE, thrown |-> FALSE,
                value |-> NullPrice, consulted |-> <<>>] : env \in PriceEnvs}

\* `await this.priceService.getTokenPrice(tokenAddress)`
GetTokenPrice ==
  /\ pure.fn = "getTokenPrice"
  /\ ~pure.returned
  /\ LET r == getTokenPrice(pure.env)
     IN pure' = [pure EXCEPT !.returned = TRUE, !.thrown = r.thrown, !.value = r.value,
                             !.consulted = r.consulted]
  /\ UNCHANGED <<monitoredTokens, pollingInterval, timers, pollingInProgress, lastBlockNumber,
                 scan, hlpmmEnabled, hlpmmPoolTokenCache, disabledChats, watched_tokens,
                 detected_transactions, trader_positions, hctx, delivered, other, cls, lbl>>

SpecPrice == InitPrice /\ [][GetTokenPrice]_vars

\* The answers getTokenStatusMetrics may meet. The portfolio API and each of
\* its three fallback endpoints fail or answer with a body that carries all,
\* some or none of the metrics; getTokenInfo returns null or the token with or
\* without a market cap; the price is unknown (0) or 2; the explorer's tokentx
\* request fails or lists transfers, and its holder count fails or answers.
MetricBodies == {NoData, Data(Metrics(900, 70, 3, 2, 40, 25)),
                 Data(Metrics(NoMetric, NoMetric, NoMetric, NoMetric, 40, NoMetric)),
                 Data(AllNull)}
FallbackAnswers == {<<a, NoData, b>> : a, b \in {NoData, Data(Metrics(800, NoMetric, 0, 0, NoMetric, NoMetric))}}
TokenInfos == {[found |-> FALSE, marketCapUsd |-> 0, totalSupply |-> 0],
               [found |-> TRUE, marketCapUsd |-> 700, totalSupply |-> 100],
               [found |-> TRUE, marketCapUsd |-> 0, totalSupply |-> 100],
               [found |-> TRUE, marketCapUsd |-> 0, totalSupply |-> 0]}
StatusPrices == {0, 2}
ExplorerTransfers == {[id |-> 1, from |-> routerAddress, to |-> WalletA, amount |-> 10, inWindow |-> TRUE],
                      [id |-> 2, from |-> WalletB, to |-> routerAddress, amount |-> 5, inWindow |-> TRUE],
                      [id |-> 3, from |-> WalletA, to |-> WalletB, amount |-> 7, inWindow |-> TRUE],
                      [id |-> 4, from |-> routerAddress, to |-> WalletB, amount |-> 90, inWindow |-> FALSE]}
Explorers == {[failed |-> TRUE, transfers |-> {}, holders |-> h] : h \in {NoMetric, 12}}
               \cup {[failed |-> FALSE, transfers |-> ts, holders |-> h] :
                       ts \in {{}, ExplorerTransfers, {t \in ExplorerTransfers : t.id >= 3}},
                       h \in {NoMetric, 12}}

StatusEnvs == {[portfolio |-> p, fallbacks |-> f, tokenInfo |-> ti, priceInUsd |-> pr,
                explorer |-> ex, routerConfigured |-> rc] :
                 p \in MetricBodies, f \in FallbackAnswers, ti \in TokenInfos,
                 pr \in StatusPrices, ex \in Explorers, rc \in BOOLEAN}

InitStatus ==
  /\ InitMonitor
  /\ cls = NoCall
  /\ lbl = NoLabel
  /\ pure \in {[fn |-> "getTokenStatusMetrics", env |-> env, returned |-> FALSE,
                thrown |-> FALSE, value |-> AllNull] : env \in StatusEnvs}

\* `await priceService.getTokenStatusMetrics(tokenAddress)`
GetTokenStatusMetrics ==
  /\ pure.fn = "getTokenStatusMetrics"
  /\ ~pure.returned
  /\ LET r == getTokenStatusMetrics(pure.env)
     IN pure' = [pure EXCEPT !.returned = TRUE, !.thrown = r.thrown, !.value = r.value]
  /\ UNCHANGED <<monitoredTokens, pollingInterval, timers, pollingInProgress, lastBlockNumber,
                 scan, hlpmmEnabled, hlpmmPoolTokenCache, disabledChats, watched_tokens,
                 detected_transactions, trader_positions, hctx, delivered, other, cls, lbl>>

SpecStatus == InitStatus /\ [][GetTokenStatusMetrics]_vars

\* The fan-out of one alert for token T1: the watched_tokens rows and the
\* disabledChats set it starts from, the order the watchers come back in, what
\* happens at each chat, and the USD value of the swap.
FanOutValues == {49999, 50000}

InitFanOut ==
  /\ InitMonitor
  /\ cls = NoCall
  /\ lbl = NoLabel
  /\ \E rows \in SUBSET (Chats \X {T1l, T2l}), disabled \in SUBSET Chats,
        totalUsdValue \in FanOutValues :
       \E order \in Orders(getTokenWatchers(rows, T1l)),
          out \in [getTokenWatchers(rows, T1l) -> SendOutcomes] :
         pure = [fn |-> "fanOut", rows |-> rows, disabled |-> disabled,
                 totalUsdValue |-> totalUsdValue, order |-> order, out |-> out,
                 returned |-> FALSE,
                 fan |-> [attempted |-> {}, sent |-> {}, disabled |-> disabled,
                          rows |-> rows, err |-> FALSE]]

\* `for (const watcher of watchers) { ... }`
RunFanOut ==
  /\ pure.fn = "fanOut"
  /\ ~pure.returned
  /\ pure' = [pure EXCEPT !.returned = TRUE,
                          !.fan = FanOut(pure.order, pure.totalUsdValue, pure.out, pure.fan)]
  /\ UNCHANGED <<monitoredTokens, pollingInterval, timers, pollingInProgress, lastBlockNumber,
                 scan, hlpmmEnabled, hlpmmPoolTokenCache, disabledChats, watched_tokens,
                 detected_transactions, trader_positions, hctx, delivered, other, cls, lbl>>

SpecFanOut == InitFanOut /\ [][RunFanOut]_vars

\* ------------------------------------------------ the history lookup
\* The block of the transaction the lookup is made for, which has index 1 in
\* its block, and the Transfer logs of the token that may name the wallet: at
\* genesis, in block 1001, before, in and after the transaction in its block,
\* and in the next block.
HistoryTargets == {0, 999, 1000, 2001}
HistoryLogs(upToBlock) ==
  {HistoryEvent("g", 0, 0), HistoryEvent("w", 1001, 5), HistoryEvent("p1", upToBlock, 0),
   HistoryEvent("cur", upToBlock, 1), HistoryEvent("p2", upToBlock, 2),
   HistoryEvent("n", upToBlock + 1, 0)}
HistoryLookups == Lookups \cup {"scanError1", "scanError2"}

\* The holdings and the amount of the swap the label is computed from.
HistoryCurrent == 150
HistoryDelta == 50

InitHistory ==
  /\ InitMonitor
  /\ cls = NoCall
  /\ lbl = NoLabel
  /\ \E upToBlock \in HistoryTargets, lookup \in HistoryLookups :
       \E events \in SUBSET HistoryLogs(upToBlock) :
         pure = [fn |-> "history", events |-> events, upToBlock |-> upToBlock,
                 lookup |-> lookup, returned |-> FALSE, result |-> FALSE,
                 threw |-> FALSE, queried |-> {}, label |-> <<>>]

\* computePositionLabel of a trader without a snapshot calls
\* hasPriorTokenInteraction for the transaction "cur".
HasPriorTokenInteraction ==
  /\ pure.fn = "history"
  /\ ~pure.returned
  /\ LET try == tryHasPriorTokenInteraction(pure.events, "cur", pure.upToBlock, 1, pure.lookup)
         prior == hasPriorTokenInteraction(pure.events, "cur", pure.upToBlock, 1, pure.lookup)
     IN pure' = [pure EXCEPT !.returned = TRUE, !.result = prior, !.threw = try.threw,
                             !.queried = try.queried,
                             !.label = computePositionLabel(NoRow, HistoryCurrent,
                                                            HistoryDelta, prior).label]
  /\ UNCHANGED <<monitoredTokens, pollingInterval, timers, pollingInProgress, lastBlockNumber,
                 scan, hlpmmEnabled, hlpmmPoolTokenCache, disabledChats, watched_tokens,
                 detected_transactions, trader_positions, hctx, delivered, other, cls, lbl>>

SpecHistory == InitHistory /\ [][HasPriorTokenInteraction]_vars

\* --------------------------------------------- the native/USD rate
\* Date.now() when the process starts, in minutes: the epoch is far more than
\* five minutes back. The clock is followed for MaxMinutes and does not go
\* back.
ProcessStart == 100
MaxMinutes == 12

NoRate == [price |-> Zero, warned |-> FALSE, failed |-> FALSE]

InitPaxUsd ==
  /\ InitMonitor
  /\ cls = NoCall
  /\ lbl = NoLabel
  /\ \E setting \in PaxUsdPriceSettings :
       pure = [fn |-> "paxUsd", setting |-> setting, now |-> ProcessStart,
               paxUsdErrorLoggedAt |-> 0, warnings |-> {}, last |-> NoRate]

\* A minute passes.
Minute ==
  /\ pure.fn = "paxUsd"
  /\ pure.now < ProcessStart + MaxMinutes
  /\ pure' = [pure EXCEPT !.now = @ + 1]
  /\ UNCHANGED <<monitoredTokens, pollingInterval, timers, pollingInProgress, lastBlockNumber,
                 scan, hlpmmEnabled, hlpmmPoolTokenCache, disabledChats, watched_tokens,
                 detected_transactions, trader_positions, hctx, delivered, other, cls, lbl>>

\* A call of getPaxUsdPrice; the router answers or fails.
GetPaxUsdPrice ==
  /\ pure.fn = "paxUsd"
  /\ \E paxQuote \in {Absent, Answer(Num(4, 1))} :
       LET res == getPaxUsdPriceAt(paxQuote, pure.setting, pure.now, pure.paxUsdErrorLoggedAt)
       IN pure' = [pure EXCEPT
                     !.paxUsdErrorLoggedAt = res.paxUsdErrorLoggedAt,
                     !.warnings = IF res.warned THEN @ \cup {pure.now} ELSE @,
                     !.last = [price |-> res.price, warned |-> res.warned,
                               failed |-> res.failed]]
  /\ UNCHANGED <<monitoredTokens, pollingInterval, timers, pollingInProgress, lastBlockNumber,
                 scan, hlpmmEnabled, hlpmmPoolTokenCache, disabledChats, watched_tokens,
                 detected_transactions, trader_positions, hctx, delivered, other, cls, lbl>>

SpecPaxUsd == InitPaxUsd /\ [][Minute \/ GetPaxUsdPrice]_vars

\* ------------------------------------------------ the sends to one chat
\* alert_media_type and alert_media_file_id of a watched_tokens row or of a
\* chat_settings row: setAlertMedia and clearAlertMedia write the two columns
\* together.
NoMediaValue == "null"
Media(type, fileId) == [alert_media_type |-> type, alert_media_file_id |-> fileId]
NoMedia == Media(NoMediaValue, NoMediaValue)
WatcherMedias == {NoMedia, Media("photo", "tokenPhoto"), Media("animation", "tokenGif")}
SettingsMedias == {NoMedia, Media("photo", "chatPhoto"), Media("animation", "chatGif")}

\* `a || b` of two nullable texts.
OrText(a, b) == IF a # NoMediaValue THEN a ELSE b

\* The sends to one chat, the text send being made whatever the media send
\* gave.
sendAlertTextAlways(watcher, settings, mediaOutcome, textOutcome) ==
  LET effectiveMediaType == OrText(watcher.alert_media_type, settings.alert_media_type)
      effectiveMediaFileId == OrText(watcher.alert_media_file_id, settings.alert_media_file_id)
      media == IF effectiveMediaFileId # NoMediaValue /\ effectiveMediaType = "photo"
                 THEN <<[method |-> "sendPhoto", fileId |-> effectiveMediaFileId]>>
               ELSE IF effectiveMediaFileId # NoMediaValue /\ effectiveMediaType = "animation"
                 THEN <<[method |-> "sendAnimation", fileId |-> effectiveMediaFileId]>>
               ELSE <<>>
  IN [attempts |-> media \o <<[method |-> "sendMessage", fileId |-> NoMediaValue]>>,
      deliveredCount |-> (IF media # <<>> /\ mediaOutcome = "ok" THEN 1 ELSE 0)
                           + (IF textOutcome = "ok" THEN 1 ELSE 0),
      caught |-> textOutcome # "ok"]

\* The inner try block of the loop over the watchers, for one watcher: the
\* sends attempted in order, what they add to deliveredCount, and whether the
\* catch block of the send was entered.
sendAlert(watcher, settings, mediaOutcome, textOutcome) ==
  LET effectiveMediaType == OrText(watcher.alert_media_type, settings.alert_media_type)
      effectiveMediaFileId == OrText(watcher.alert_media_file_id, settings.alert_media_file_id)
      media == IF effectiveMediaFileId # NoMediaValue /\ effectiveMediaType = "photo"
                 THEN <<[method |-> "sendPhoto", fileId |-> effectiveMediaFileId]>>
               ELSE IF effectiveMediaFileId # NoMediaValue /\ effectiveMediaType = "animation"
                 THEN <<[method |-> "sendAnimation", fileId |-> effectiveMediaFileId]>>
               ELSE <<>>
      sent == media # <<>> /\ mediaOutcome = "ok"
  IN IF sent
       THEN [attempts |-> media, deliveredCount |-> 1, caught |-> FALSE]
       ELSE [attempts |-> media \o <<[method |-> "sendMessage", fileId |-> NoMediaValue]>>,
             deliveredCount |-> IF textOutcome = "ok" THEN 1 ELSE 0,
             caught |-> textOutcome # "ok"]

InitSend ==
  /\ InitMonitor
  /\ cls = NoCall
  /\ lbl = NoLabel
  /\ \E watcher \in WatcherMedias, settings \in SettingsMedias,
        mediaOutcome \in {"ok", "fail"}, textOutcome \in {"ok", "fail"} :
       pure = [fn |-> "send", watcher |-> watcher, settings |-> settings,
               mediaOutcome |-> mediaOutcome, textOutcome |-> textOutcome,
               returned |-> FALSE, attempts |-> <<>>, deliveredCount |-> 0,
               caught |-> FALSE]

\* One pass of the loop body from the inner `try` on.
SendAlert ==
  /\ pure.fn = "send"
  /\ ~pure.returned
  /\ LET r == sendAlert(pure.watcher, pure.settings, pure.mediaOutcome, pure.textOutcome)
     IN pure' = [pure EXCEPT !.returned = TRUE, !.attempts = r.attempts,
                             !.deliveredCount = r.deliveredCount, !.caught = r.caught]
  /\ UNCHANGED <<monitoredTokens, pollingInterval, timers, pollingInProgress, lastBlockNumber,
                 scan, hlpmmEnabled, hlpmmPoolTokenCache, disabledChats, watched_tokens,
                 detected_transactions, trader_positions, hctx, delivered, other, cls, lbl>>

SpecSend == InitSend /\ [][SendAlert]_vars

\* ------------------------------------------ hourly status deliveries
\* The bucket starts a caller passes; the last one is a Date holding NaN.
InvalidDate == "Invalid Date"
BucketStarts == {"08:00", "09:00", InvalidDate}

\* Date.prototype.toISOString: the ISO text of the instant, a RangeError for
\* an invalid date.
toISOString(d) ==
  IF d = InvalidDate THEN [throws |-> TRUE, text |-> <<>>]
  ELSE [throws |-> FALSE, text |-> <<"iso", d>>]

\* How pool.query ends: it resolves, it rejects with nothing written, or it
\* rejects after the statement was committed (the reply was lost).
QueryFaults == {"none", "rejected", "replyLost"}

\* The key of UNIQUE(bucket_start, token_address, chat_id).
StatusKey(tokenAddress, chatId, bucketStart) ==
  <<toISOString(bucketStart).text, toLowerCase(tokenAddress), chatId>>

claimHourlyStatusDeliveryCountsConflict(table, tokenAddress, chatId, bucketStart, fault) ==
  IF toISOString(bucketStart).throws \/ fault = "rejected"
  THEN [table |-> table, result |-> "false"]
  ELSE [table |-> table \cup {StatusKey(tokenAddress, chatId, bucketStart)},
        result |-> IF fault = "replyLost" THEN "false" ELSE "true"]

\* INSERT ... ON CONFLICT (bucket_start, token_address, chat_id) DO NOTHING is
\* one statement, which the database runs atomically: concurrent calls are
\* calls in some order. The result is "true", "false" or "throws".
claimHourlyStatusDelivery(table, tokenAddress, chatId, bucketStart, fault) ==
  IF toISOString(bucketStart).throws \/ fault = "rejected"
  THEN [table |-> table, result |-> "false"]
  ELSE LET key == StatusKey(tokenAddress, chatId, bucketStart)
           rowCount == IF key \in table THEN 0 ELSE 1
       IN [table |-> table \cup {key},
           result |-> IF fault = "replyLost" THEN "false"
                      ELSE IF rowCount > 0 THEN "true" ELSE "false"]

StatusKeys ==
  {StatusKey(t, c, b) : t \in {T1l, T2l}, c \in Chats, b \in BucketStarts \ {InvalidDate}}

MaxClaims == 3

NoClaim == [key |-> <<>>, fault |-> "none", result |-> "none", invalid |-> FALSE]

InitClaim ==
  /\ InitMonitor
  /\ cls = NoCall
  /\ lbl = NoLabel
  /\ pure = [fn |-> "claim", hourly_status_deliveries |-> {}, calls |-> 0,
             granted |-> [k \in StatusKeys |-> 0], last |-> NoClaim]

\* One call of claimHourlyStatusDelivery, by any caller.
ClaimHourlyStatusDelivery ==
  /\ pure.fn = "claim"
  /\ pure.calls < MaxClaims
  /\ \E tokenAddress \in {T1l, T1m, T2l}, chatId \in Chats,
        bucketStart \in BucketStarts, fault \in QueryFaults :
       LET res == claimHourlyStatusDelivery(pure.hourly_status_deliveries, tokenAddress,
                                            chatId, bucketStart, fault)
           key == StatusKey(tokenAddress, chatId, bucketStart)
       IN pure' = [pure EXCEPT
                     !.hourly_status_deliveries = res.table,
                     !.calls = @ + 1,
                     !.granted = IF res.result = "true" /\ key \in StatusKeys
                                 THEN [@ EXCEPT ![key] = @ + 1] ELSE @,
                     !.last = [key |-> key, fault |-> fault, result |-> res.result,
                               invalid |-> toISOString(bucketStart).throws]]
  /\ UNCHANGED <<monitoredTokens, pollingInterval, timers, pollingInProgress, lastBlockNumber,
                 scan, hlpmmEnabled, hlpmmPoolTokenCache, disabledChats, watched_tokens,
                 detected_transactions, trader_positions, hctx, delivered, other, cls, lbl>>

SpecClaim == InitClaim /\ [][ClaimHourlyStatusDelivery]_vars

\* ---------------------------------------------------------------- claims
\* C1: for every transaction hash h and every chat c, at most one alert for h
\* is ever delivered to c, whatever re-scans, events sharing h, and delivery
\* or persistence faults occur.
AtMostOneAlertPerChat ==
  \A h \in Hashes, c \in Chats : delivered[h][c] <= 1

\* C2: detected_transactions holds at most one row per transaction hash; a
\* save that finds no row for the hash inserts its row and returns true; a
\* save that finds one returns false and leaves the table as it is; no row is
\* ever changed or removed. This holds with a second process that saw
\* hasDetectedTransaction false before our handler saved.
OneRowPerHash ==
  \A r1, r2 \in detected_transactions : r1.tx_hash = r2.tx_hash => r1 = r2

SaveReturns(inserted, txHash, row) ==
  /\ inserted = "yes" =>
       /\ ~hasDetectedTransaction(detected_transactions, txHash)
       /\ detected_transactions' = detected_transactions \cup {row}
  /\ inserted = "no" =>
       /\ hasDetectedTransaction(detected_transactions, txHash)
       /\ detected_transactions' = detected_transactions

DetectedWriteOnce ==
  /\ []OneRowPerHash
  /\ [][/\ detected_transactions \subseteq detected_transactions'
        /\ hctx.inserted = "n/a" =>
             SaveReturns(hctx'.inserted, hctx.txHash,
                         DetectedRow(hctx.tokenAddress, hctx.txHash, "buy",
                                     hctx.trader, hctx.amount))
        /\ other.phase = "observed" /\ other'.phase = "saved" =>
             SaveReturns(other'.inserted, ChainLogs[other.log].txHash,
                         DetectedRow(ChainLogs[other.log].token,
                                     ChainLogs[other.log].txHash, "buy",
                                     ChainLogs[other.log].to,
                                     ChainLogs[other.log].value))]_vars

\* Our handler's save came second: it returned false, and the row the other
\* process wrote for the hash is not the row our handler would have written.
LaterSaveReturnedFalse ==
  /\ hctx.inserted = "no"
  /\ other.inserted = "yes"
  /\ ChainLogs[other.log].txHash = hctx.txHash
  /\ ChainLogs[other.log].value # hctx.amount

\* C3: whenever the handler of a classified swap is finished and a send of
\* that call succeeded, detected_transactions contains the hash and the
\* trader_positions row of (token, trader) holds the holdings read for the
\* event.
DeliveredImpliesPersisted ==
  (hctx.phase = "done" /\ hctx.classified /\ hctx.sent # {}) =>
     /\ hasDetectedTransaction(detected_transactions, hctx.txHash)
     /\ getTraderPosition(trader_positions, hctx.tokenAddress, hctx.trader) = hctx.holdings

\* C4: a handler call for a classified swap that ends with no successful
\* send changes neither detected_transactions nor trader_positions.
NoDeliveryNoWrite ==
  [][(hctx.phase # "done" /\ hctx'.phase = "done" /\ hctx'.classified /\ hctx'.sent = {})
       => UNCHANGED <<detected_transactions, trader_positions>>]_vars

\* The token had watchers, and every one of them was skipped by the minimum
\* or had its send fail.
AllSendsFailedOrFiltered ==
  /\ hctx.phase = "done"
  /\ hctx.classified
  /\ hctx.lookup
  /\ ~hctx.err
  /\ hctx.sent = {}
  /\ getTokenWatchers(watched_tokens, hctx.tokenAddress) # {}

\* C5: at most one interval callback is past the guard at any time, the
\* guard flag is set exactly while one is, and no callback passes the guard
\* (and so calls the RPC endpoint) while a scan is in flight; this holds also
\* after the timer was cleared and a new one created during a scan.
ScansInFlight == {s \in Slots : scan[s].pc # "idle"}

SingleFlight ==
  /\ [](/\ Cardinality(ScansInFlight) <= 1
        /\ pollingInProgress <=> ScansInFlight # {})
  /\ [][ScansInFlight # {} => ScansInFlight' \subseteq ScansInFlight]_vars

\* A new timer is running while the scan the cleared timer started is still
\* in flight.
TimerRestartedDuringScan ==
  /\ pollingInterval
  /\ pollingInProgress
  /\ \E s \in Slots : scan[s].pc # "idle" /\ scan[s].orphan

\* C6: a scan in which getBlockNumber or a log query (Transfer or Swap) has
\* failed ends with lastBlockNumber at the value it had when the scan began.
FailedScanKeepsHeight ==
  [][\A s \in Slots :
       (scan[s].pc = "caught" /\ scan'[s].pc = "idle")
         => lastBlockNumber' = scan[s].startHeight]_vars

\* C7: a scan that has read a head H above lastBlockNumber queries the range
\* [lastBlockNumber + 1, H], or [H, H] on the first run, and its completion
\* stores H; a scan makes no query with a head at or below lastBlockNumber,
\* and lastBlockNumber never moves back; it changes only when a scan ends, to
\* the head that scan read, so the ranges of completed scans follow one
\* another without gap or overlap.
Querying(sc) ==
  sc.pc \in {"queryTransfer", "handleTransfer", "commit", "handled", "querySwap", "handleSwap"}

RangeOf(sc) == <<sc.fromBlock, sc.currentBlock>>

ExpectedRange(last, head) == <<IF last = 0 THEN head ELSE last + 1, head>>

ScanRange ==
  /\ [](\A s \in Slots : Querying(scan[s]) =>
          /\ scan[s].currentBlock > lastBlockNumber
          /\ RangeOf(scan[s]) = ExpectedRange(lastBlockNumber, scan[s].currentBlock))
  /\ [][/\ lastBlockNumber' >= lastBlockNumber
        /\ \A s \in Slots :
             (Querying(scan[s]) /\ scan'[s].pc = "idle")
               => lastBlockNumber' = scan[s].currentBlock
        /\ lastBlockNumber' # lastBlockNumber =>
             \E s \in Slots :
               /\ scan[s].pc # "idle" /\ scan'[s].pc = "idle"
               /\ \/ scan[s].pc = "getBlock"
                  \/ /\ lastBlockNumber' = scan[s].currentBlock
                     /\ RangeOf(scan[s]) = ExpectedRange(lastBlockNumber, lastBlockNumber')]_vars

\* A second scan is handling the events of [2, 2] after a first one stored 1.
SecondScanContinues ==
  /\ lastBlockNumber = 1
  /\ \E s \in Slots : scan[s].pc = "handleSwap" /\ RangeOf(scan[s]) = <<2, 2>>

\* C8: classifyTransfer returns {buy, trader = to} exactly when from is the
\* router, or the transaction's destination is the router and to is the
\* transaction's sender, accounts compared whatever their letter case; in
\* every other case, a missing destination included, it returns none and the
\* handler returns at once.
SameAccount(a, b) == a[1] = b[1]

IsRouterBuy(from, to, txFrom, txTo) ==
  \/ SameAccount(from, routerAddress)
  \/ txTo # Null /\ SameAccount(txTo, routerAddress) /\ SameAccount(to, txFrom)

ClassifyIffRouterBuy ==
  cls.returned =>
    IF IsRouterBuy(cls.from, cls.to, cls.txFrom, cls.txTo)
      THEN cls.result = [type |-> "buy", trader |-> cls.to] /\ cls.proceeds
      ELSE cls.result = NoClassification /\ ~cls.proceeds

\* A buy recognised through a router address spelled in lower case.
LowerCaseRouterClassified ==
  /\ cls.returned
  /\ cls.from = toLowerCase(routerAddress)
  /\ cls.from # routerAddress
  /\ cls.result.type = "buy"

\* C9: the handler of a Swap event looks up watchers only when tokenIn is the
\* quote currency, and the address it looks them up under (and renders and
\* persists) is a key of monitoredTokens at that moment.
SwapLookupAddressWatched ==
  [][(hctx'.kind = "swap" /\ hctx'.lookup /\ ~hctx.lookup) =>
       /\ \E s \in Slots :
            /\ scan[s].pc = "handleSwap"
            /\ toLowerCase(ChainLogs[Head(scan[s].events)].tokenIn) = hlpmmUsidAddress
       /\ hctx'.tokenAddress \in Range(monitoredTokens)]_vars

\* C10: with a persisted snapshot s > 0 and current holdings c >= s the label
\* is "+", the change of c against s in percent rounded to two decimals, and
\* "%", and the history lookup is not made; s = 100, c = 150 gives "+50.00%"
\* and c = s gives "+0.00%".
PercentString(hundredths) ==
  <<"+">> \o DecimalDigits(hundredths \div 100) \o <<".">>
    \o <<DigitChars[((hundredths % 100) \div 10) + 1], DigitChars[(hundredths % 10) + 1]>>
    \o <<"%">>

LabelIsPercentOfSnapshot ==
  (lbl.returned /\ lbl.snapshot > 0 /\ lbl.current >= lbl.snapshot) =>
     /\ ~lbl.history
     /\ \E hundredths \in 0..(10000 * lbl.current) :
          /\ 2 * Abs(hundredths * lbl.snapshot
                       - 10000 * (lbl.current - lbl.snapshot)) <= lbl.snapshot
          /\ lbl.label = PercentString(hundredths)
     /\ (lbl.snapshot = 100 /\ lbl.current = 150)
          => lbl.label = <<"+", "5", "0", ".", "0", "0", "%">>
     /\ lbl.current = lbl.snapshot
          => lbl.label = <<"+", "0", ".", "0", "0", "%">>

\* The call with s = 100 and c = 150 has returned.
LabelOfHundredToHundredFifty ==
  /\ lbl.returned
  /\ lbl.snapshot = 100
  /\ lbl.current = 150
  /\ lbl.label = <<"+", "5", "0", ".", "0", "0", "%">>

\* C11: with a persisted snapshot s > 0 and current holdings c < s the label
\* is taken against the inferred baseline p = max(0, c - delta): the change
\* of c against p in percent when p > 0, "NEW" when p = 0, without the
\* history lookup; s = 100, c = 40, delta = 10 gives "+33.33%".
IsPercentOf(label, current, baseline) ==
  \E hundredths \in 0..(10000 * current) :
    /\ 2 * Abs(hundredths * baseline - 10000 * (current - baseline)) <= baseline
    /\ label = PercentString(hundredths)

LabelBelowSnapshotUsesInferred ==
  (lbl.returned /\ lbl.snapshot > 0 /\ lbl.current < lbl.snapshot) =>
     LET p == Max(0, lbl.current - lbl.delta)
     IN /\ ~lbl.history
        /\ IF p > 0 THEN IsPercentOf(lbl.label, lbl.current, p)
                    ELSE lbl.label = LabelNew
        /\ (lbl.snapshot = 100 /\ lbl.current = 40 /\ lbl.delta = 10)
             => lbl.label = <<"+", "3", "3", ".", "3", "3", "%">>

\* The call with s = 100, c = 40 and delta = 10 has returned.
LabelOfHundredToForty ==
  /\ lbl.returned
  /\ lbl.snapshot = 100
  /\ lbl.current = 40
  /\ lbl.delta = 10
  /\ lbl.label = <<"+", "3", "3", ".", "3", "3", "%">>

\* C12: without a snapshot of holdings > 0, the label is "NEW" when the chain
\* holds no Transfer of the token from or to the trader before the current
\* transaction; when it holds one, the label is the change against
\* max(0, current - delta) in percent, or "NEW" when that baseline is 0.
PriorActivityOnChain ==
  \E evt \in lbl.events :
    /\ evt.txHash # CurrentTx.txHash
    /\ \/ evt.block < CurrentTx.block
       \/ evt.block = CurrentTx.block /\ evt.txIndex < CurrentTx.txIndex

LabelFromHistoryOf(prior) ==
  (lbl.returned /\ lbl.snapshot <= 0) =>
     LET p == Max(0, lbl.current - lbl.delta)
     IN /\ lbl.history
        /\ IF prior /\ p > 0 THEN IsPercentOf(lbl.label, lbl.current, p)
                             ELSE lbl.label = LabelNew

LabelFromHistory == LabelFromHistoryOf(PriorActivityOnChain)

\* C12, amended: as above where the history lookup answers (at once, or by
\* the windowed scan after a range-limit error); when the lookup fails with
\* any other error the label is "NEW" whatever the chain holds.
LabelFromHistoryFound == LabelFromHistoryOf(PriorActivityOnChain /\ lbl.lookup # "error")

\* The windowed scan found a transfer earlier in the same block, and the
\* label is a percentage.
LabelFromWindowedScan ==
  /\ lbl.returned
  /\ lbl.snapshot = NoRow
  /\ lbl.lookup = "rangeLimit"
  /\ lbl.events = {HistoryEvent("p1", 2, 0), HistoryEvent("p2", 2, 2)}
  /\ lbl.current = 150
  /\ lbl.delta = 50
  /\ lbl.label = <<"+", "5", "0", ".", "0", "0", "%">>

\* C13: with a snapshot of 500, a transfer of 1000 and balanceOf returning
\* 1500, the label is "+100.00%".
ScenarioLabel ==
  (lbl.returned /\ lbl.snapshot = 500 /\ lbl.current = 1500 /\ lbl.delta = 1000)
    => lbl.label = <<"+", "1", "0", "0", ".", "0", "0", "%">>

\* C13, amended: in that scenario the label is "+200.00%", the change of 1500
\* against 500.
ScenarioLabelIsChangeAgainstSnapshot ==
  (lbl.returned /\ lbl.snapshot = 500 /\ lbl.current = 1500 /\ lbl.delta = 1000)
    => lbl.label = <<"+", "2", "0", "0", ".", "0", "0", "%">>

\* The call of the scenario has returned without the history lookup.
ScenarioLabelComputed ==
  /\ lbl.returned
  /\ lbl.snapshot = 500
  /\ lbl.current = 1500
  /\ lbl.delta = 1000
  /\ ~lbl.history

\* C14: whatever the snapshot, the holdings, the amount and the outcome of
\* the history lookup, the label is "NEW" or a sign, digits, a point, two
\* digits and "%"; it is never "N/A".
IsSignedPercent(label) ==
  /\ Len(label) >= 6
  /\ label[1] \in {"+", "-"}
  /\ label[Len(label)] = "%"
  /\ label[Len(label) - 3] = "."
  /\ \A i \in (2..(Len(label) - 1)) \ {Len(label) - 3} : label[i] \in Range(DigitChars)

LabelIsNewOrPercent ==
  lbl.returned =>
    /\ lbl.label # <<"N", "/", "A">>
    /\ lbl.label = LabelNew \/ IsSignedPercent(lbl.label)

\* The history lookup failed and the label is "NEW" although the chain holds
\* an earlier transfer.
LabelAfterFailedLookup ==
  /\ lbl.returned
  /\ lbl.lookup = "error"
  /\ PriorActivityOnChain
  /\ lbl.current > lbl.delta
  /\ lbl.label = LabelNew

\* C15: getTokenPrice asks the portfolio API, the router and the quoter in
\* that order and returns the result of the first of them that yields a
\* price: no later source is asked once an earlier one has a price, and when
\* only the quoter has one, priceInUsd is its spot price and priceInEth the
\* spot price divided by the native/USD rate.
ApiYields(env) == env.api.usd.ok \/ env.api.eth.ok
RouterYields(env) ==
  /\ env.decimalsOk
  /\ \/ env.weth.ok /\ IsPositive(env.weth.val)
     \/ env.usdc.ok /\ IsPositive(env.usdc.val)
QuoterYields(env) == env.quoter.state = "ok" /\ IsPositive(env.quoter.spot)

FirstYieldingSource(env) ==
  IF ApiYields(env) THEN "api"
  ELSE IF RouterYields(env) THEN "router"
  ELSE IF QuoterYields(env) THEN "quoter"
  ELSE "none"

LastConsulted == pure.consulted[Len(pure.consulted)]

IsQuoterPrice(value, env) ==
  /\ ~value.isNull
  /\ value.priceInUsd.text = "dec"
  /\ value.priceInUsd.val = toFixed(env.quoter.spot, 3)
  /\ IsPositive(getPaxUsdPrice(env.pax))
       => /\ value.priceInEth.text = "dec"
          /\ value.priceInEth.val = toFixed(QDiv(env.quoter.spot, getPaxUsdPrice(env.pax)), 8)

PriceFromFirstSource ==
  (pure.fn = "getTokenPrice" /\ pure.returned) =>
    LET first == FirstYieldingSource(pure.env)
    IN /\ pure.consulted \in {<<"api">>, <<"api", "router">>, <<"api", "quoter">>,
                              <<"api", "router", "quoter">>}
       /\ first # "none" => LastConsulted = first
       /\ first = "api" => pure.value = getTokenPriceFromPortfolioApi(pure.env.api, pure.env.pax)
       /\ first = "router" => ~pure.value.isNull
       /\ first = "quoter" => IsQuoterPrice(pure.value, pure.env)

\* C16: getTokenPrice never throws, and returns null only if no source has a
\* price: with a positive price from the portfolio API, from the router (on
\* either path, decimals() having answered) or from the quoter the result is
\* not null, and a source that fails, decimals() included, hands over to the
\* next one.
RouterFails(env) == ~env.decimalsOk \/ (~env.weth.ok /\ ~env.usdc.ok)

NullOnlyIfEverySourceFailed ==
  (pure.fn = "getTokenPrice" /\ pure.returned) =>
    /\ ~pure.thrown
    /\ pure.value.isNull
         => ~ApiYields(pure.env) /\ ~RouterYields(pure.env) /\ ~QuoterYields(pure.env)
    /\ (~ApiYields(pure.env) /\ RouterFails(pure.env))
         => /\ LastConsulted = "quoter"
            /\ pure.value = getHLPMMTokenPrice(pure.env.quoter, pure.env.pax)

QuoterPriceAfterDecimalsFailure ==
  /\ pure.fn = "getTokenPrice"
  /\ pure.returned
  /\ ~ApiYields(pure.env)
  /\ ~pure.env.decimalsOk
  /\ QuoterYields(pure.env)
  /\ ~pure.value.isNull
  /\ pure.value.priceInUsd = Dec(Num(3, 4))

\* C17: a swap whose price resolution returned null is handled with its price
\* unknown: the fan-out is not run with a USD value of 0 in its place, and no
\* watching chat is skipped by the comparison of that value with its minimum.
NullPriceIsNotZeroValue ==
  (hctx.priceNull /\ hctx.watchers # {}) =>
    /\ hctx.totalUsdValue # 0
    /\ ~hctx.err => hctx.watchers \subseteq hctx.attempted

\* C19: for every chat watching the token, the handler of a classified swap
\* attempts a send if and only if the swap's USD value is at least the chat's
\* min_buy_usdc (499.99 against 500.00: none; 500.00: one), whatever happens
\* at the other chats.
PassesFilter(c) == hctx.totalUsdValue >= chat_settings[c].min_buy_usdc

SendAttemptedIffValueReachesMinimum ==
  hctx.phase \in {"commit", "done"} =>
    \A c \in hctx.watchers : c \in hctx.attempted <=> PassesFilter(c)

\* C20: every chat that watches the token and passes the minimum-value filter
\* has a send attempted during the handling of the swap, whatever became of
\* the chats iterated before it.
EveryPassingChatIsAttempted ==
  hctx.phase \in {"commit", "done"} =>
    \A c \in hctx.watchers : PassesFilter(c) => c \in hctx.attempted

\* C18: getTokenStatusMetrics never throws: whatever fails among the
\* portfolio API, its fallback endpoints, the explorer and the RPC calls, it
\* returns a metrics record, and with every source failing the six fields of
\* the record are null.
EverySourceFails(env) ==
  /\ ~env.portfolio.present
  /\ \A i \in 1..Len(env.fallbacks) : ~env.fallbacks[i].present
  /\ ~env.tokenInfo.found
  /\ env.explorer.failed
  /\ env.explorer.holders = NoMetric

MetricsNeverThrows ==
  (pure.fn = "getTokenStatusMetrics" /\ pure.returned) =>
    /\ ~pure.thrown
    /\ pure.value \in [{"marketCapUsd", "volume24hUsd", "buyers24h", "sellers24h", "holders",
                        "biggestBuy24hUsd"} -> Int]
    /\ EverySourceFails(pure.env) => pure.value = AllNull

AllNullAfterTotalFailure ==
  /\ pure.fn = "getTokenStatusMetrics"
  /\ pure.returned
  /\ EverySourceFails(pure.env)
  /\ pure.env.routerConfigured
  /\ pure.value = AllNull

\* C21: when the send to a chat fails with the bot-removed error and the chat
\* is not yet in disabledChats, every watched_tokens row of that chat is
\* deleted (unless the deletion itself fails) and the rows of a chat are
\* deleted for no other reason; whether the deletion succeeds or fails, the
\* loop goes on to the next watcher.
KickedFirst(c) ==
  /\ c \in pure.fan.attempted
  /\ pure.out[c] \in {"kicked", "kickedDisableFails"}
  /\ c \notin pure.disabled

PositionOf(c) == CHOOSE i \in 1..Len(pure.order) : pure.order[i] = c

\* The loop reached the watcher after c: it made the send, or skipped the
\* chat by its minimum, or ended in reading that chat's settings or links.
ReachedNextAfter(c) ==
  PositionOf(c) < Len(pure.order) =>
    LET d == pure.order[PositionOf(c) + 1]
    IN \/ d \in pure.fan.attempted
       \/ pure.totalUsdValue < chat_settings[d].min_buy_usdc
       \/ pure.out[d] \in {"settingsError", "linksError"}

KickedChatIsUnsubscribed ==
  (pure.fn = "fanOut" /\ pure.returned) =>
    \A c \in Chats :
      LET rowsOf(rows) == {r \in rows : r[1] = c}
          kicked == c \in Range(pure.order) /\ KickedFirst(c)
      IN /\ (kicked /\ pure.out[c] = "kicked") => rowsOf(pure.fan.rows) = {}
         /\ ~(kicked /\ pure.out[c] = "kicked") => rowsOf(pure.fan.rows) = rowsOf(pure.rows)
         /\ kicked => c \in pure.fan.disabled /\ ReachedNextAfter(c)

KickedChatLosesRowsOthersKeep ==
  /\ pure.fn = "fanOut"
  /\ pure.returned
  /\ pure.order = <<"c1", "c2">>
  /\ pure.out["c1"] = "kicked"
  /\ "c1" \notin pure.disabled
  /\ pure.rows = Chats \X {T1l, T2l}
  /\ pure.fan.rows = {"c2"} \X {T1l, T2l}
  /\ "c2" \in pure.fan.sent

\* C22: whatever startMonitoringToken and stopMonitoringToken calls were
\* made, the polling timer is set if and only if monitoredTokens is not empty,
\* exactly one timer exists while it is set and none otherwise, and no token is
\* entered in monitoredTokens twice.
TimerIffMonitoring ==
  /\ pollingInterval <=> monitoredTokens # <<>>
  /\ timers = IF pollingInterval THEN 1 ELSE 0
  /\ \A i, j \in DOMAIN monitoredTokens : monitoredTokens[i] = monitoredTokens[j] => i = j

\* The last token was removed while a scan was running, which cleared the
\* timer, and a token added afterwards set a new one.
TimerSetAgainAfterLastRemoval ==
  /\ \E s \in Slots : scan[s].orphan
  /\ pollingInterval
  /\ timers = 1
  /\ Len(monitoredTokens) = 2

\* C23: two processes started against the same database are never both
\* running scans: while a scan of this process is in flight, the second
\* process is not between the hasDetectedTransaction and the
\* saveDetectedTransaction of an event of its own scan.
OneInstanceScans ==
  ~(/\ \E s \in Slots : scan[s].pc # "idle"
    /\ other.phase = "observed")

\* C24: for every (bucket, token, chat) triple at most one
\* claimHourlyStatusDelivery call returns true, in whatever order the calls
\* reach the database; a call whose query fails, or whose bucket cannot be
\* rendered, returns false and does not throw.
AtMostOneClaimPerBucket ==
  pure.fn = "claim" =>
    /\ \A k \in StatusKeys : pure.granted[k] <= 1
    /\ pure.last.result # "throws"
    /\ (pure.last.fault # "none" \/ pure.last.invalid) => pure.last.result # "true"
    /\ \A k \in StatusKeys : pure.granted[k] = 1 => k \in pure.hourly_status_deliveries

\* Three calls for one triple: the first is granted, the second finds the row,
\* the third fails at the database.
ClaimedOnceThenRefused ==
  /\ pure.fn = "claim"
  /\ pure.calls = 3
  /\ pure.last.fault = "rejected"
  /\ pure.last.result = "false"
  /\ pure.last.key \in StatusKeys
  /\ pure.granted[pure.last.key] = 1
  /\ pure.hourly_status_deliveries = {pure.last.key}

\* C25: the detected_transactions row written for a delivered swap records
\* the swap's USD value, the token amount times priceInUsd, with its hash,
\* type and trader.
DetectedRowRecordsUsdValue ==
  \A r \in detected_transactions :
    /\ r.type = "buy"
    /\ r.transaction_value_usd # NullUsdValue

\* C26: the trader_positions row of a (token, trader) is the holdings read
\* while handling the most recent swap of that trader and token of which at
\* least one delivery succeeded: no row exists while nothing was delivered,
\* and a handler that ends after a successful send leaves its holdings there.
SnapshotIsLastDeliveredHoldings ==
  /\ (\A h \in Hashes, c \in Chats : delivered[h][c] = 0) =>
       \A k \in PositionKeys : trader_positions[k] = NoRow
  /\ (hctx.phase = "done" /\ hctx.sent # {}) =>
       getTraderPosition(trader_positions, hctx.tokenAddress, hctx.trader) = hctx.holdings

\* A Transfer of the token to or from the wallet is on the chain, in another
\* transaction, in an earlier block or earlier in the block of "cur".
EarlierTransferOnChain ==
  \E evt \in pure.events :
    /\ evt.txHash # "cur"
    /\ \/ evt.block < pure.upToBlock
       \/ evt.block = pure.upToBlock /\ evt.txIndex < 1

\* C27: hasPriorTokenInteraction returns true exactly when such a Transfer
\* exists; the events of the transaction itself, of later transactions of its
\* block and of later blocks do not count.
PriorIffEarlierTransfer ==
  (pure.fn = "history" /\ pure.returned) => (pure.result <=> EarlierTransferOnChain)

\* C27, amended: it returns true exactly when such a Transfer exists and no
\* query of the lookup failed with an error other than the range-limit error
\* of the full-range query; after such a failure it returns false.
PriorIffEarlierTransferFound ==
  (pure.fn = "history" /\ pure.returned) =>
     (pure.result <=> (EarlierTransferOnChain /\ ~pure.threw))

\* The chain holds the transfer of the transaction itself, a later one of its
\* block and one of the next block, and the answer is false.
LaterTransfersAreNotPrior ==
  /\ pure.fn = "history"
  /\ pure.returned
  /\ pure.lookup = "ok"
  /\ pure.upToBlock = 2001
  /\ pure.events = {HistoryEvent("cur", 2001, 1), HistoryEvent("p2", 2001, 2),
                    HistoryEvent("n", 2002, 0)}
  /\ ~pure.result

\* The window of the scan that holds block b.
WindowsHolding(b) ==
  {w \in Windows(pure.upToBlock) : w[1] <= b /\ b <= w[2]}

FailedLookupMeansNoPrior ==
  (pure.fn = "history" /\ pure.returned) =>
     /\ pure.result \in BOOLEAN
     /\ pure.lookup = "error" => pure.threw
     /\ pure.threw => ~pure.result /\ pure.label = LabelNew

\* The second window of the scan was rejected; the transfer at genesis was
\* never read, and the label is "NEW".
ScanErrorHidesGenesisTransfer ==
  /\ pure.fn = "history"
  /\ pure.returned
  /\ pure.lookup = "scanError2"
  /\ pure.upToBlock = 2001
  /\ pure.events = {HistoryEvent("g", 0, 0)}
  /\ pure.queried = {<<1002, 2001>>, <<2, 1001>>}
  /\ pure.threw
  /\ ~pure.result
  /\ pure.label = LabelNew

MediaInForce == IF pure.watcher # NoMedia THEN pure.watcher ELSE pure.settings

\* The outcome of the n-th send attempted.
SendSucceeded(n) ==
  IF pure.attempts[n].method = "sendMessage" THEN pure.textOutcome = "ok"
  ELSE pure.mediaOutcome = "ok"

\* C31: with media configured the photo or animation send is attempted
\* first, with the token's media in preference to the chat's, and the text send
\* only after that send failed; without media only the text send is
\* attempted; the chat adds at most 1 to deliveredCount, and 1 exactly when
\* one of its sends succeeded.
MediaFirstThenText ==
  (pure.fn = "send" /\ pure.returned) =>
     /\ MediaInForce = NoMedia =>
          pure.attempts = <<[method |-> "sendMessage", fileId |-> NoMediaValue]>>
     /\ MediaInForce # NoMedia =>
          /\ pure.attempts[1] =
               [method |-> IF MediaInForce.alert_media_type = "photo"
                           THEN "sendPhoto" ELSE "sendAnimation",
                fileId |-> MediaInForce.alert_media_file_id]
          /\ IF pure.mediaOutcome = "ok" THEN Len(pure.attempts) = 1
             ELSE /\ Len(pure.attempts) = 2
                  /\ pure.attempts[2] = [method |-> "sendMessage", fileId |-> NoMediaValue]
     /\ pure.deliveredCount \in {0, 1}
     /\ pure.deliveredCount = 1 <=> \E n \in DOMAIN pure.attempts : SendSucceeded(n)

\* The token has a GIF and the chat a default photo: the GIF send failed and
\* the text send delivered the alert.
TokenGifFailsTextDelivers ==
  /\ pure.fn = "send"
  /\ pure.returned
  /\ pure.watcher = Media("animation", "tokenGif")
  /\ pure.settings = Media("photo", "chatPhoto")
  /\ pure.attempts = <<[method |-> "sendAnimation", fileId |-> "tokenGif"],
                       [method |-> "sendMessage", fileId |-> NoMediaValue]>>
  /\ pure.deliveredCount = 1

\* C32: a handler that ended on a failure of the database leaves the scan
\* in its loop: the callback resumes after the handler's await, never in its
\* own catch block, goes on with the remaining events of the query, and when
\* it ends it has stored the head and cleared pollingInProgress.
PersistenceFailureConfined ==
  [][\A s \in Slots :
       (hctx.phase = "done" /\ hctx.err /\ scan[s].pc \notin {"idle"}) =>
          /\ scan[s].pc = "handled"
          /\ scan'[s].pc # scan[s].pc =>
               /\ scan'[s].pc \in {"handleTransfer", "handleSwap", "queryTransfer",
                                    "querySwap", "idle"}
               /\ Len(scan[s].events) > 1 =>
                    /\ scan'[s].events = Tail(scan[s].events)
                    /\ scan'[s].pc \in {"handleTransfer", "handleSwap"}
               /\ scan'[s].pc = "idle" =>
                    /\ ~pollingInProgress'
                    /\ lastBlockNumber' = scan[s].currentBlock]_vars

\* The alert of h1 was delivered and the database refused its rows; the
\* first scan is handling the next Transfer log of its range.
ScanGoesOnAfterFailedCommit ==
  /\ lastBlockNumber = 0
  /\ detected_transactions = {}
  /\ \E c \in Chats : delivered["h1"][c] > 0
  /\ hctx = NoHandler
  /\ \E s \in Slots : scan[s].pc = "handleTransfer" /\ scan[s].events # <<>>

\* C33: a scan that ends without a rejected query stores the head it read in
\* lastBlockNumber, whatever its handlers did; the logs a scan handles lie
\* above lastBlockNumber, so a log of a completed scan is never handled again;
\* and a transaction none of whose alerts was delivered has no
\* detected_transactions row.
CompletedScanDropsUndelivered ==
  [][/\ \A s \in Slots :
          /\ scan[s].pc \in {"handleTransfer", "handleSwap"} =>
               /\ ChainLogs[Head(scan[s].events)].block > lastBlockNumber
               /\ ChainLogs[Head(scan[s].events)].block <= scan[s].currentBlock
          /\ (scan[s].pc \in {"handled", "queryTransfer", "querySwap"} /\ scan'[s].pc = "idle") =>
               lastBlockNumber' = scan[s].currentBlock
     /\ \A h \in Hashes :
          (\A c \in Chats : delivered[h][c] = 0) =>
             ~hasDetectedTransaction(detected_transactions, h)]_vars

\* The first scan read head 1 and is over; the send of the alert of h1 failed
\* because the bot was removed, nothing was delivered or recorded, and the
\* next scan starts at block 2.
UndeliveredBlockIsBehind ==
  /\ lastBlockNumber = 1
  /\ disabledChats # {}
  /\ watched_tokens # {}
  /\ \A c \in Chats : delivered["h1"][c] = 0
  /\ ~hasDetectedTransaction(detected_transactions, "h1")
  /\ \E s \in Slots : /\ scan[s].pc = "queryTransfer"
                       /\ scan[s].fromBlock = 2
                       /\ scan[s].iter = 1

\* The step a comes before the step b in the handler's log.
StepBefore(a, b) ==
  \E i, j \in DOMAIN pure.log : i < j /\ pure.log[i] = a /\ pure.log[j] = b

StepTaken(a) == \E i \in DOMAIN pure.log : pure.log[i] = a

\* C34: the shutdown stops the monitor (watched set cleared, provider
\* destroyed), then the bot, then releases the lock, and closes the pool only
\* after the release; a release without a lock sends no unlock query, and
\* after a release no lock is recorded, whether the unlock query failed or
\* not.
ShutdownInOrder ==
  [][pure.fn = "shutdown" =>
       /\ (pure.pc = "stop" /\ pure'.pc # "stop") =>
            monitoredTokens' = <<>> /\ (StepTaken("stop")' => pure'.providerDestroyed)
       /\ StepTaken("botStop") => StepBefore("stop", "botStop") /\ ~pure.botPolling
       /\ StepTaken("release") =>
            StepBefore("botStop", "release") /\ ~pure.singletonLockClient
       /\ StepTaken("unlock") => pure.heldAtSignal /\ StepBefore("unlock", "release")
       /\ (StepTaken("release") /\ pure.heldAtSignal) => StepTaken("unlock")
       /\ ~pure.poolOpen => StepBefore("release", "poolEnd")
       /\ pure.poolOpen => ~StepTaken("poolEnd")]_vars

\* The lock was held, the unlock query failed, and the handler went on to
\* close the pool with no lock recorded.
ShutdownAfterFailedUnlock ==
  /\ pure.fn = "shutdown"
  /\ pure.pc = "poolEnd"
  /\ pure.log = <<"stop", "botStop", "unlock", "release">>
  /\ pure.heldAtSignal
  /\ pure.sessionLock
  /\ ~pure.singletonLockClient
  /\ pure.poolOpen

\* C38: after stop() has returned, the interval callback starts no scan and
\* calls getBlockNumber no more.
NoScanAfterStop ==
  [][(pure.fn = "shutdown" /\ pure.stopped) =>
       \A s \in Slots : ~(scan[s].pc = "idle" /\ scan'[s].pc = "getBlock")]_vars

\* C35: a token is a key of monitoredTokens, under one key only, if and only
\* if some chat has a watched_tokens row for it, the addresses being compared
\* without regard to letter case.
WatchedSetMatchesRows ==
  /\ \A t \in {T1l, T2l} :
       (\E i \in DOMAIN monitoredTokens : toLowerCase(monitoredTokens[i]) = t)
         <=> getTokenWatchers(watched_tokens, t) # {}
  /\ \A i, j \in DOMAIN monitoredTokens :
       toLowerCase(monitoredTokens[i]) = toLowerCase(monitoredTokens[j]) => i = j

\* C36: once the fan-out is over, a chat whose send failed because the bot
\* was removed has no watched_tokens rows, also when the chat was in
\* disabledChats before (unsubscribed earlier, and subscribed again since).
RemovedChatHasNoRows ==
  (pure.fn = "fanOut" /\ pure.returned) =>
    \A c \in pure.fan.attempted :
      pure.out[c] = "kicked" => {r \in pure.fan.rows : r[1] = c} = {}

\* C37: lastBlockNumber never decreases, whatever heads getBlockNumber
\* reports and whichever scans fail, and it changes only to the head that the
\* scan which ends read.
HeightNeverDecreases ==
  [][/\ lastBlockNumber' >= lastBlockNumber
     /\ lastBlockNumber' # lastBlockNumber =>
          \E s \in Slots : /\ scan[s].pc # "idle"
                           /\ scan'[s].pc = "idle"
                           /\ lastBlockNumber' \in 1..MaxHead
                           /\ \/ scan[s].pc = "getBlock"
                              \/ lastBlockNumber' = scan[s].currentBlock]_vars

\* lastBlockNumber is 2, and the getBlockNumber of the scan in flight has
\* failed.
HeightKeptAfterFailedHead ==
  /\ lastBlockNumber = 2
  /\ \E s \in Slots : /\ scan[s].pc = "caught"
                       /\ scan[s].failure = "head"
                       /\ scan[s].startHeight = 2

\* C39: a TokenPrice that getTokenPrice returns has a strictly positive
\* priceInEth or a strictly positive priceInUsd: the router quoting an output
\* of 0 on both paths is a failed source, and the quoter is asked instead of
\* a price of zero being returned.
NonNullPriceIsPositive ==
  (pure.fn = "getTokenPrice" /\ pure.returned /\ ~pure.value.isNull) =>
    \/ IsPositive(pure.value.priceInEth.val)
    \/ IsPositive(pure.value.priceInUsd.val)

\* C40: for a buy of an amount delta >= 0 by a wallet whose holdings are
\* >= 0, computePositionLabel returns no negative percentage: a percentage it
\* returns is the change of the current holdings against a baseline, the
\* snapshot or current - delta, that is positive and at most the current
\* holdings.
LabelBaselines == {lbl.snapshot, lbl.current - lbl.delta}

PercentageNeverNegative ==
  (lbl.returned /\ lbl.current >= 0 /\ lbl.delta >= 0 /\ lbl.label # LabelNew) =>
    /\ lbl.label[1] = "+"
    /\ \E baseline \in LabelBaselines :
         /\ baseline > 0
         /\ baseline <= lbl.current
         /\ IsPercentOf(lbl.label, lbl.current, baseline)

\* The holdings fell from a snapshot of 500 to 150 after a buy of 50: the
\* label is the change against 100.
LabelOfFiveHundredToHundredFifty ==
  /\ lbl.returned
  /\ lbl.snapshot = 500
  /\ lbl.current = 150
  /\ lbl.delta = 50
  /\ lbl.label = <<"+", "5", "0", ".", "0", "0", "%">>

====
